---- MODULE Spec2Model ----
(***************************************************************************)
(* Verification model of the emile-Kosmos decision core.                   *)
(*                                                                         *)
(*   Spec      KosmosAgent.tick (death branch, rupture handling, zone,     *)
(*             decision-source arbiter, plan queue, reasoner gateway,      *)
(*             execution of the decision) interleaved with the statements  *)
(*             of the background reasoner thread _llm_reason.              *)
(*   SpecFair  Spec plus weak fairness of the reasoner thread's steps.     *)
(*   SpecTrust the competence-gated teacher-probability update of tick     *)
(*             and the death-rate update of its death branch.              *)
(*   SpecST    SurplusTensionModule.step with the on_rupture call tick     *)
(*             makes when step reports a rupture.                          *)
(*                                                                         *)
(* Real-valued quantities are fixed-point integers: energy, entropy,       *)
(* probabilities drawn per tick, rewards and curvature are in hundredths;  *)
(* the teacher probability is in millionths; death rates are in tenths.    *)
(***************************************************************************)
EXTENDS Integers, Sequences, FiniteSets, TLC

VARIABLES
    \* ---- KosmosAgent fields read or written by the arbiter / gateway ----
    total_ticks,        \* self.total_ticks
    alive,              \* self.alive
    zone,               \* self._consciousness_zone
    prev_zone,          \* self._prev_zone ("none" = None)
    st_rupture,         \* self._st_metrics["should_rupture"]
    rupture_cooldown,   \* self.surplus_tension.rupture_cooldown
    used_learned,       \* self._used_learned
    decision_source,    \* self._decision_source
    current_plan,       \* self._current_plan
    plan_replan_if,     \* self._plan_replan_if
    llm_pending,        \* self._llm_pending
    llm_pending_tick,   \* self._llm_pending_tick
    llm_busy,           \* self._llm_busy
    ticks_since_llm,    \* self._ticks_since_llm
    use_llm,            \* self.use_llm
    \* ---- the reasoner threads started by tick ----
    llm_threads,        \* running _llm_reason threads: closure variable tick_snapshot, position
    \* ---- observations ----
    llm_exit,           \* how the reasoner thread that ended last left: none / returned / raised
    adopted_req,        \* request tick of the reasoner result the latest tick adopted (-1: none)
    tick_raised,        \* an exception left tick()
    \* ---- SpecTrust ----
    tp,                 \* self._teacher_prob (millionths)
    learned_samples,    \* self._learned_samples
    learned_ema,        \* self._learned_reward_ema (hundredths)
    heuristic_ema,      \* self._heuristic_reward_ema (hundredths)
    death_rate_ema,     \* self._death_rate_ema (tenths of deaths per 1000 ticks)
    baseline_death_rate,\* self._baseline_death_rate (tenths)
    baseline_frozen,    \* self._baseline_frozen
    trust_ticks,        \* ticks taken in SpecTrust
    trust_case,         \* which branch the latest tick of SpecTrust took
    \* ---- SpecST ----
    st_cooldown,        \* SurplusTensionModule.rupture_cooldown
    st_ruptures,        \* SurplusTensionModule.ruptures_triggered
    st_sigma_ema,       \* SurplusTensionModule.sigma_ema (hundredths)
    st_hist_len,        \* len(SurplusTensionModule.curvature_history)
    st_should_rupture,  \* should_rupture returned by the latest step
    st_steps,           \* number of step calls made
    st_since_rupture,   \* step calls that returned false since the latest rupture (-1: no rupture yet)
    st_gap,             \* step calls that returned false between the two latest ruptures (-1: fewer than two)
    \* ---- SpecParse ----
    parse_content,      \* the content string of the reasoner's HTTP response, by shape
    parse_ctx,          \* which fallback plan strategy and energy select
    parse_out,          \* outcome of _parse_plan_response(content, strategy, energy)
    reason_out,         \* outcome of reason_plan for a response with that content
    \* ---- SpecLock ----
    lock_holder,        \* the thread inside 'with self._lock' ("none": the lock is free)
    bg_pc,              \* position of the _bg_loop thread
    lock_tick_pc,       \* position of the thread that calls tick()
    lock_llm_pc,        \* position of the _llm_reason thread ("none": not running)
    running,            \* self._running
    lock_ticks,         \* tick() calls completed in SpecLock
    \* ---- SpecVitals ----
    v_energy,           \* self.energy (ten-thousandths)
    v_hydration,        \* self.hydration (ten-thousandths)
    v_alive,            \* self.alive
    v_ticks,            \* ticks taken in SpecVitals
    \* ---- SpecDemo ----
    demo_buf,           \* DemonstrationBuffer.buffer
    demo_added,         \* number of add() calls made
    d_ticks,            \* self.total_ticks
    d_since_death,      \* self._ticks_since_death
    d_source,           \* self._decision_source
    \* ---- SpecTD ----
    td_learner,         \* which class the learner is: GoalModuleV2 or GoalMapper
    td,                 \* the learner: Q, eligibility (e, rows), current pair, visit counts
    td_last_op,         \* the latest call: select / update / update_again / update_skipped / reset
    td_prev_e,          \* the eligibility table before the latest call
    td_last_err,        \* TD error of the latest update
    td_last_dq,         \* change of Q(current state, chosen action) made by the latest update
    td_ops,             \* calls made in SpecTD
    \* ---- SpecWarm ----
    wm_strategy,        \* strategy passed to select_goal
    wm_energy,          \* energy passed to select_goal, in GridSteps-ths
    wm_health,          \* health passed to select_goal, in GridSteps-ths
    wm_food,            \* food_nearby
    wm_shelter,         \* shelter_nearby
    wm_goal,            \* the goal select_goal returned on its greedy branch
    wm_calls,           \* selections made in SpecWarm
    \* ---- SpecThreshold ----
    th_history,         \* curvature_history
    th_death_ticks,     \* death_ticks
    th_tick,            \* total_ticks, copied to _current_tick by step
    th_sigma_ema,       \* sigma_ema
    th_cooldown,        \* rupture_cooldown
    th_k,               \* _last_k_effective
    th_threshold,       \* _last_dynamic_threshold
    th_rupture,         \* should_rupture of the latest step
    th_last,            \* the latest tick: death / step / computed (step that computed k_effective)
    \* ---- SpecPolicy ----
    pol,                \* the policy: _trajectory, gradient steps applied to the weights, _baseline, _total_updates, latest return value
    pol_last,           \* the latest call: select / record_reward / update
    \* ---- strategy dwell gating ----
    dw_strategy,        \* self.strategy
    dw_dwell,           \* self._strategy_dwell_ticks
    dw_pending,         \* self._pending_strategy
    dw_cooldown,        \* surplus_tension._rupture_cooldown
    dw_ticks,           \* ticks taken in the run
    dw_last,            \* kind of the latest tick
    dw_rupture,         \* the latest tick reported a rupture
    dw_changed,         \* the latest tick adopted a new strategy
    dw_proposed,        \* what the strategy layer proposed on the latest tick
    dw_gap,             \* non-death ticks from the previous change to the latest one, -1 before the second
    dw_since,           \* non-death ticks since the latest change, -1 before the first
    \* ---- rupture handling ----
    ru_module,          \* psi, the two histories, sigma_ema and the cooldown of the module
    ru_stepped,         \* the module as step left it on the latest tick, before on_rupture
    ru_plan,            \* self._current_plan
    ru_queue_at_select, \* the plan queue when the latest tick selected its decision source
    ru_calls,           \* on_rupture calls of the latest tick
    ru_rupture,         \* the latest tick reported a rupture
    ru_ticks,           \* ticks taken in the run
    \* ---- decision-source selection ----
    ar_in,              \* what the latest decision found: zone, rupture, queue, slot, hazard, energy
    ar_out,             \* what the arbiter returned for it
    ar_calls            \* arbiter runs in the run

tickVars == << total_ticks, alive, zone, prev_zone, st_rupture, rupture_cooldown,
               used_learned, decision_source, current_plan, plan_replan_if,
               llm_pending, llm_pending_tick, llm_busy, ticks_since_llm, use_llm,
               llm_threads, llm_exit, adopted_req, tick_raised >>

trustVars == << tp, learned_samples, learned_ema, heuristic_ema, death_rate_ema,
                baseline_death_rate, baseline_frozen, trust_ticks, trust_case >>

stVars == << st_cooldown, st_ruptures, st_sigma_ema, st_hist_len, st_should_rupture,
             st_steps, st_since_rupture, st_gap >>

parseVars == << parse_content, parse_ctx, parse_out, reason_out >>

lockVars == << lock_holder, bg_pc, lock_tick_pc, lock_llm_pc, running, lock_ticks >>

vitalVars == << v_energy, v_hydration, v_alive, v_ticks >>

demoVars == << demo_buf, demo_added, d_ticks, d_since_death, d_source >>

tdVars == << td_learner, td, td_last_op, td_prev_e, td_last_err, td_last_dq, td_ops >>

warmVars == << wm_strategy, wm_energy, wm_health, wm_food, wm_shelter, wm_goal, wm_calls >>

thVars == << th_history, th_death_ticks, th_tick, th_sigma_ema, th_cooldown, th_k, th_threshold, th_rupture, th_last >>

polVars == << pol, pol_last >>

dwVars == << dw_strategy, dw_dwell, dw_pending, dw_cooldown, dw_ticks, dw_last, dw_rupture, dw_changed, dw_proposed, dw_gap, dw_since >>

ruVars == << ru_module, ru_stepped, ru_plan, ru_queue_at_select, ru_calls, ru_rupture, ru_ticks >>

arVars == << ar_in, ar_out, ar_calls >>

vars == << tickVars, trustVars, stVars, parseVars, lockVars, vitalVars, demoVars, tdVars, warmVars, thVars, polVars, dwVars, ruVars, arVars >>

\* what the actions of one specification leave alone
notTickVars == << trustVars, stVars, parseVars, lockVars, vitalVars, demoVars, tdVars, warmVars, thVars, polVars, dwVars, ruVars, arVars >>
notTrustVars == << tickVars, stVars, parseVars, lockVars, vitalVars, demoVars, tdVars, warmVars, thVars, polVars, dwVars, ruVars, arVars >>
notSTVars == << tickVars, trustVars, parseVars, lockVars, vitalVars, demoVars, tdVars, warmVars, thVars, polVars, dwVars, ruVars, arVars >>
notParseVars == << tickVars, trustVars, stVars, lockVars, vitalVars, demoVars, tdVars, warmVars, thVars, polVars, dwVars, ruVars, arVars >>
notLockVars == << tickVars, trustVars, stVars, parseVars, vitalVars, demoVars, tdVars, warmVars, thVars, polVars, dwVars, ruVars, arVars >>
notVitalVars == << tickVars, trustVars, stVars, parseVars, lockVars, demoVars, tdVars, warmVars, thVars, polVars, dwVars, ruVars, arVars >>
notDemoVars == << tickVars, trustVars, stVars, parseVars, lockVars, vitalVars, tdVars, warmVars, thVars, polVars, dwVars, ruVars, arVars >>
notTdVars == << tickVars, trustVars, stVars, parseVars, lockVars, vitalVars, demoVars, warmVars, thVars, polVars, dwVars, ruVars, arVars >>
notWarmVars == << tickVars, trustVars, stVars, parseVars, lockVars, vitalVars, demoVars, tdVars, thVars, polVars, dwVars, ruVars, arVars >>
notThVars == << tickVars, trustVars, stVars, parseVars, lockVars, vitalVars, demoVars, tdVars, warmVars, polVars, dwVars, ruVars, arVars >>
notPolVars == << tickVars, trustVars, stVars, parseVars, lockVars, vitalVars, demoVars, tdVars, warmVars, thVars, dwVars, ruVars, arVars >>
notDwVars == << tickVars, trustVars, stVars, parseVars, lockVars, vitalVars, demoVars, tdVars, warmVars, thVars, polVars, ruVars, arVars >>
notRuVars == << tickVars, trustVars, stVars, parseVars, lockVars, vitalVars, demoVars, tdVars, warmVars, thVars, polVars, dwVars, arVars >>
notArVars == << tickVars, trustVars, stVars, parseVars, lockVars, vitalVars, demoVars, tdVars, warmVars, thVars, polVars, dwVars, ruVars >>

-----------------------------------------------------------------------------
(* Bounds of the model.                                                    *)

\* ticks explored per run of Spec
MaxTicks == 5
\* longest plan the reasoner returns
MaxPlanLen == 3
\* tick at which the runs of Spec that start in a high-tension stretch begin
WarmTick == 20
\* ticks explored per run of SpecTrust
MaxTrustTicks == 5
\* step calls explored per run of SpecST
MaxSteps == 102

(* Program constants (hundredths unless noted).                            *)

CRISIS_ENERGY == 25
STRUGGLING_ENERGY == 40
TRANSCENDENT_ENERGY == 70
TRANSCENDENT_ENTROPY == 40
NEAR_DEATH_ENERGY == 15
ENERGY_CRITICAL == 20
STALENESS_MAX == 3
NEED_PLAN_MAX == 1
MIN_LLM_INTERVAL == 5
BASE_INTERVAL == 25
HIGH_TENSION == 50
FORCE_LLM_TICKS == 999
SIGMA_CRIT == 65
RUPTURE_COOLDOWN == 50
TAU_MIN == 50
TAU_MAX == 200
HISTORY_SIZE == 100
MIN_HISTORY == 50
MIN_THRESHOLD == 30
RUPTURE_KEEP == 10
CURVATURE_MIN_SURPLUS == 10

\* teacher-probability update (millionths; decay factors per thousand / ten thousand)
TRUST_INIT == 1000000
POLICY_TEACHER_MIN == 100000
POLICY_TEACHER_DECAY == 998
POLICY_TEACHER_WARMUP == 2000
WARMUP_DECAY == 9999
RECOVERY_RATE == 10005
RECOVERY_CAP == 850000
MIN_EVAL_EXTRA == 500
EMA_ALPHA == 2
DEATH_RATE_INIT == 300

\* floor(p * num / den) without leaving 32 bits
MulDiv(p, num, den) == (p \div den) * num + ((p % den) * num) \div den

Min(a, b) == IF a < b THEN a ELSE b
Max(a, b) == IF a > b THEN a ELSE b

-----------------------------------------------------------------------------
(* Decisions.  A decision is the dict the tick executes; only the shape of *)
(* its 'tool' and 'args' values decides what tools.invoke does with it.    *)

Step(t, a) == [tool |-> t, args |-> a]

\* what _heuristic_decide and action_to_tool_call build: a registered tool, a dict of its parameters
OkStep == Step("known", "mapping")

\* the 'tool'/'args' values _parse_plan_response and _parse_response pass through unvalidated:
\* a registered name, an unregistered name (or None, when the key is missing), a hashable
\* non-string, a non-mapping 'args', an unhashable 'tool' (a JSON list or object)
StepShapes == { Step("known", "mapping"), Step("unknown", "mapping"),
                Step("nonstring", "mapping"), Step("known", "not_mapping"),
                Step("unhashable", "mapping") }

\* self.tools.invoke(tool_name, **args), core.py:871-873 with ToolRegistry.invoke
InvokeOutcome(step) ==
    IF step.args = "not_mapping" THEN "raise"          \* ** of a non-mapping: TypeError at the call
    ELSE IF step.tool = "unhashable" THEN "raise"      \* self._tools.get(name): TypeError outside the try
    ELSE IF step.tool \in {"unknown", "nonstring"} THEN "error"   \* Unknown tool
    ELSE IF step.args = "bad_keys" THEN "error"        \* tool.fn(**kwargs) raised, caught
    ELSE "ok"

NoResult == [kind |-> "none"]

\* self._use_planning: set in __init__ and never assigned again
UsePlanning == TRUE

\* replan_if of the plans reason_plan builds without the reasoner's help
DefaultReplanIf == {"energy_critical"}

\* n steps: the first of shape s, the others well formed
PlanOf(s, n) == [i \in 1..n |-> IF i = 1 THEN s ELSE OkStep]

\* what reason_plan can return (a parsed non-empty plan, or a fallback plan):
\* well-formed plans of every length, and one-step plans of every shape.
\* req records the tick_snapshot of the thread that produced the result.
PlanResults(req) ==
    { [kind |-> "plan", plan |-> PlanOf(OkStep, n), replan_if |-> DefaultReplanIf,
       req |-> req] : n \in 1..MaxPlanLen }
    \cup { [kind |-> "plan", plan |-> PlanOf(s, 1), replan_if |-> DefaultReplanIf,
             req |-> req] : s \in StepShapes }

\* what reason can return (a single tool call)
SingleResults(req) == { [kind |-> "single", step |-> s, req |-> req] : s \in StepShapes }

-----------------------------------------------------------------------------
(* KosmosAgent.tick: the pure pieces.                                      *)

\* consciousness-zone classification, core.py:743-750
Zone(e, h) ==
    IF e < CRISIS_ENERGY THEN "crisis"
    ELSE IF e < STRUGGLING_ENERGY THEN "struggling"
    ELSE IF e > TRANSCENDENT_ENERGY /\ h < TRANSCENDENT_ENTROPY THEN "transcendent"
    ELSE "healthy"

\* a rupture check that starts no cooldown
CheckRuptureNoCooldown(cooldown, sigma_ema, threshold) ==
    IF cooldown > 0 THEN [rupture |-> FALSE, cooldown |-> cooldown - 1]
    ELSE IF sigma_ema > threshold THEN [rupture |-> TRUE, cooldown |-> cooldown]
    ELSE [rupture |-> FALSE, cooldown |-> cooldown]

\* SurplusTensionModule._check_rupture: cooldown gate, then sigma_ema > dynamic threshold
CheckRupture(cooldown, sigma_ema, threshold) ==
    IF cooldown > 0 THEN [rupture |-> FALSE, cooldown |-> cooldown - 1]
    ELSE IF sigma_ema > threshold THEN [rupture |-> TRUE, cooldown |-> RUPTURE_COOLDOWN]
    ELSE [rupture |-> FALSE, cooldown |-> cooldown]

\* SurplusTensionModule._compute_dynamic_threshold; stat is mean + k_effective * std
\* of the recent curvature history
DynamicThreshold(hist_len, stat) ==
    IF hist_len < MIN_HISTORY THEN SIGMA_CRIT ELSE Max(stat, MIN_THRESHOLD)

\* SurplusTensionModule._compute_tau_prime (hundredths)
TauPrime(sigma_ema) ==
    Min(TAU_MAX, Max(TAU_MIN, TAU_MAX - ((TAU_MAX - TAU_MIN) * sigma_ema) \div 100))

\* KosmosAgent._check_plan_interrupt; of the replan_if names only energy_critical is modelled
CheckPlanInterrupt(plan, z, hazard, replan, e) ==
    IF plan = << >> THEN FALSE
    ELSE \/ z = "crisis"
         \/ hazard
         \/ ("energy_critical" \in replan /\ e < ENERGY_CRITICAL)

\* a staleness test that accepts a result of any age
FreshAlways(now, pending_tick) == TRUE

\* the staleness test of a pending result, core.py:789-790
Fresh(now, pending_tick) == now - pending_tick <= STALENESS_MAX

\* a queue that always asks for a new plan
NeedNewPlanAlways(plan) == TRUE

\* need_new_plan, core.py:819
NeedNewPlan(plan) == Len(plan) <= NEED_PLAN_MAX

\* a gateway that does not look at the busy flag
GatewayIgnoresBusy(enabled, busy, should_fire, plan) ==
    enabled /\ should_fire /\ NeedNewPlan(plan)

\* the condition under which tick starts a reasoner thread, core.py:820
GatewayFires(enabled, busy, should_fire, plan) ==
    enabled /\ ~busy /\ should_fire /\ NeedNewPlan(plan)

\* KosmosAgent._should_fire_llm: returns the flag, the reasons and the new counter.
\* tsl is self._ticks_since_llm on entry; event is "none", "discovery" (a first
\* discovery at this cell) or "secondary" (biome / strategy / weather change, stuck).
ShouldFireLlm(tsl, pz, z, e, sigma_ema, event) ==
    LET t1 == tsl + 1
        primary == (IF pz # "none" /\ z # pz THEN {"zone transition"} ELSE {})
                   \cup (IF e < NEAR_DEATH_ENERGY THEN {"near-death"} ELSE {})
                   \cup (IF sigma_ema > HIGH_TENSION THEN {"high tension"} ELSE {})
                   \cup (IF event = "discovery" THEN {"discovered"} ELSE {})
        withSecondary == IF primary = {} /\ event = "secondary"
                         THEN {"secondary"} ELSE primary
        reasons == IF withSecondary = {} /\ t1 * 100 >= BASE_INTERVAL * TauPrime(sigma_ema)
                   THEN {"refresh"} ELSE withSecondary
        critical == reasons \cap {"zone transition", "near-death"} # {}
        fire == reasons # {} /\ (critical \/ t1 >= MIN_LLM_INTERVAL)
    IN [fire |-> fire, reasons |-> reasons, critical |-> critical,
        tsl |-> IF fire THEN 0 ELSE t1]

\* a reflex that never takes the decision
ReflexNever(z, rupt) == FALSE

\* a reflex that takes the decision in every crisis tick, rupture or not
ReflexIgnoresRupture(z, rupt) == z = "crisis"

\* the survival-reflex condition, core.py:757
ReflexApplies(z, rupt) == z = "crisis" /\ ~rupt

\* a queue step that throws the pending result away
PendingDroppedByQueueStep(pending) == NoResult

\* the pending slot after a step taken from the plan queue, core.py:783-785:
\* the branch does not touch self._llm_pending
PendingAfterQueueStep(pending) == pending

\* decision-source selection, core.py:756-814.  plan / replan are the queue and its
\* replan_if after the rupture handling; student is the outcome of the random draw.
Arbiter(z, rupt, student, plan, replan, pending, pending_tick, now, hazard, e, planning) ==
    LET keep == [plan |-> plan, replan |-> replan, pending |-> pending, adopted |-> -1]
    IN
    IF ReflexApplies(z, rupt)
    THEN [keep EXCEPT !.plan = << >>]
            @@ [source |-> "survival_reflex", used |-> FALSE, step |-> OkStep]
    ELSE IF student
    THEN keep @@ [source |-> "learned", used |-> TRUE, step |-> OkStep]
    ELSE
      LET plan1 == IF CheckPlanInterrupt(plan, z, hazard, replan, e) THEN << >> ELSE plan
          k1 == [keep EXCEPT !.plan = plan1]
      IN
      IF planning /\ plan1 # << >>
      THEN [k1 EXCEPT !.plan = Tail(plan1), !.pending = PendingAfterQueueStep(pending)]
              @@ [source |-> "teacher_plan", used |-> FALSE, step |-> Head(plan1)]
      ELSE IF pending # NoResult
      THEN
        IF Fresh(now, pending_tick)
        THEN
          IF pending.kind = "plan"
          THEN
            IF pending.plan # << >>
            THEN [plan |-> Tail(pending.plan), replan |-> pending.replan_if,
                  pending |-> NoResult, adopted |-> pending.req,
                  source |-> "teacher_plan", used |-> FALSE, step |-> Head(pending.plan)]
            ELSE [plan |-> << >>, replan |-> pending.replan_if,
                  pending |-> NoResult, adopted |-> pending.req,
                  source |-> "teacher_heuristic", used |-> FALSE, step |-> OkStep]
          ELSE [k1 EXCEPT !.pending = NoResult, !.adopted = pending.req]
                  @@ [source |-> "teacher_llm", used |-> FALSE, step |-> pending.step]
        ELSE [k1 EXCEPT !.pending = NoResult]
                @@ [source |-> "teacher_heuristic", used |-> FALSE, step |-> OkStep]
      ELSE k1 @@ [source |-> "teacher_heuristic", used |-> FALSE, step |-> OkStep]

-----------------------------------------------------------------------------
(* Inputs of one tick, drawn from the world and the dynamics engine.       *)

\* energy and entropy after metabolism, at the death check / zone classification
Vitals == { [energy |-> 0, entropy |-> 50], [energy |-> 10, entropy |-> 50],
            [energy |-> 20, entropy |-> 50], [energy |-> 80, entropy |-> 50] }
\* _respawn sets energy to 1.0 at the start of the tick
RespawnVitals == { [energy |-> 100, entropy |-> 50] }

TrustLevels == {0, 100}         \* self._teacher_prob as read by the arbiter
Draws == {50}                   \* np.random.random()
Events == {"none", "discovery"} \* what _should_fire_llm finds in the world

\* sigma_ema of a high-tension stretch: the smoothed curvature moves by at most a
\* tenth of the raw curvature per step, so it stays near the rupture threshold
TenseSigma == {63, 66}

\* sigma_ema returned by surplus_tension.step at tick now: compute_curvature is 0
\* until the surplus history holds CURVATURE_MIN_SURPLUS values
SigmaLevelsAt(now) == IF now < CURVATURE_MIN_SURPLUS THEN {0} ELSE TenseSigma

TeacherSources == {"teacher_plan", "teacher_llm", "teacher_heuristic"}

\* ticks taken since the start of the run
TicksRun == IF total_ticks >= WarmTick THEN total_ticks - WarmTick ELSE total_ticks

-----------------------------------------------------------------------------
(* KosmosAgent.tick                                                        *)

\* the death branch, core.py:619-672: the tick returns before the arbiter runs
TickDeath ==
    /\ ~tick_raised /\ TicksRun < MaxTicks
    /\ alive
    /\ \E v \in Vitals : v.energy <= 0
    /\ total_ticks' = total_ticks + 1
    /\ alive' = FALSE
    /\ adopted_req' = -1
    /\ UNCHANGED << zone, prev_zone, st_rupture, rupture_cooldown, used_learned,
                    decision_source, current_plan, plan_replan_if,
                    llm_pending, llm_pending_tick, llm_busy, ticks_since_llm, use_llm,
                    llm_threads, llm_exit, tick_raised >>
    /\ UNCHANGED notTickVars

\* a tick that reaches the arbiter, core.py:619-640 and 674-1062
TickRun ==
    /\ ~tick_raised /\ TicksRun < MaxTicks
    /\ \E v \in (IF alive THEN Vitals ELSE RespawnVitals),
          p \in TrustLevels, u \in Draws, sg \in SigmaLevelsAt(total_ticks + 1),
          hz \in BOOLEAN, ev \in Events :
         /\ v.energy > 0
         /\ LET now    == total_ticks + 1
                \* 4.5 surplus/tension step and rupture handling, core.py:715-734
                cr     == CheckRupture(rupture_cooldown, sg, SIGMA_CRIT)
                rupt   == cr.rupture
                plan0  == IF rupt THEN << >> ELSE current_plan
                tsl0   == IF rupt THEN FORCE_LLM_TICKS ELSE ticks_since_llm
                \* 4.6 zone, core.py:743-750
                z      == Zone(v.energy, v.entropy)
                \* 5. decision source, core.py:756-814
                d      == Arbiter(z, rupt, u > p, plan0, plan_replan_if, llm_pending,
                                  llm_pending_tick, now, hz, v.energy, UsePlanning)
                \* gateway, core.py:818-866 (a rupture marks the agent stuck, core.py:726-727)
                sf     == ShouldFireLlm(tsl0, prev_zone, z, v.energy, sg,
                                        IF rupt /\ ev = "none" THEN "secondary" ELSE ev)
                fire   == GatewayFires(use_llm, llm_busy, sf.fire, d.plan)
            IN
            /\ total_ticks' = now
            /\ alive' = TRUE
            /\ st_rupture' = rupt
            /\ rupture_cooldown' = cr.cooldown
            /\ zone' = z
            /\ prev_zone' = z
            /\ decision_source' = d.source
            /\ used_learned' = d.used
            /\ current_plan' = d.plan
            /\ plan_replan_if' = d.replan
            /\ llm_pending' = d.pending
            /\ adopted_req' = d.adopted
            /\ ticks_since_llm' = sf.tsl
            /\ llm_busy' = (llm_busy \/ fire)
            /\ llm_threads' = IF fire
                              THEN llm_threads \cup {[snap |-> now, pc |-> "calling"]}
                              ELSE llm_threads
            \* 6. execute the decision, core.py:868-873
            /\ tick_raised' = (InvokeOutcome(d.step) = "raise")
    /\ UNCHANGED << llm_pending_tick, use_llm, llm_exit >>
    /\ UNCHANGED notTickVars

-----------------------------------------------------------------------------
(* The reasoner thread _llm_reason, core.py:856-866, one statement a step. *)

\* the agent fields no statement of the thread writes
AgentUnchangedByThread ==
    << total_ticks, alive, zone, prev_zone, st_rupture, rupture_cooldown, used_learned,
       decision_source, current_plan, plan_replan_if, ticks_since_llm, use_llm,
       adopted_req, tick_raised >>

\* thread t moved to position pc
Moved(t, pc) == (llm_threads \ {t}) \cup {[t EXCEPT !.pc = pc]}

\* reason_plan / reason returned; self._llm_pending_tick = tick_snapshot
LlmWriteTick ==
    /\ \E t \in llm_threads :
         /\ t.pc = "calling"
         /\ llm_pending_tick' = t.snap
         /\ llm_threads' = Moved(t, "tick_written")
    /\ UNCHANGED << llm_pending, llm_busy, llm_exit >>
    /\ UNCHANGED << AgentUnchangedByThread, notTickVars >>

\* self._llm_pending = result
LlmWriteResult ==
    /\ \E t \in llm_threads :
         /\ t.pc = "tick_written"
         /\ \E r \in (IF UsePlanning THEN PlanResults(t.snap) ELSE SingleResults(t.snap)) :
              llm_pending' = r
         /\ llm_threads' = Moved(t, "result_written")
    /\ UNCHANGED << llm_pending_tick, llm_busy, llm_exit >>
    /\ UNCHANGED << AgentUnchangedByThread, notTickVars >>

\* finally: self._llm_busy = False, after the two writes
LlmFinish ==
    /\ \E t \in llm_threads :
         /\ t.pc = "result_written"
         /\ llm_threads' = llm_threads \ {t}
    /\ llm_busy' = FALSE
    /\ llm_exit' = "returned"
    /\ UNCHANGED << llm_pending, llm_pending_tick >>
    /\ UNCHANGED << AgentUnchangedByThread, notTickVars >>

\* a reasoner call that raised and left the busy flag set
LlmRaiseNoFinally ==
    /\ \E t \in llm_threads :
         /\ t.pc = "calling"
         /\ llm_threads' = llm_threads \ {t}
    /\ llm_exit' = "raised"
    /\ UNCHANGED << llm_pending, llm_pending_tick, llm_busy >>
    /\ UNCHANGED << AgentUnchangedByThread, notTickVars >>

\* the reasoner call raised: finally: self._llm_busy = False, nothing written
LlmRaise ==
    /\ \E t \in llm_threads :
         /\ t.pc = "calling"
         /\ llm_threads' = llm_threads \ {t}
    /\ llm_busy' = FALSE
    /\ llm_exit' = "raised"
    /\ UNCHANGED << llm_pending, llm_pending_tick >>
    /\ UNCHANGED << AgentUnchangedByThread, notTickVars >>

-----------------------------------------------------------------------------
(* The teacher-probability update, core.py:921-969, and the death-rate     *)
(* update of the death branch, core.py:651-663.                            *)

\* (1 - ema_alpha) * ema + ema_alpha * reward
RewardEma(ema, reward) == ((100 - EMA_ALPHA) * ema + EMA_ALPHA * reward) \div 100

\* 0.9 * death_rate_ema + 0.1 * (1000 / ticks_since_death), tenths
DeathRateEma(ema, ticks_since_death) == (9 * ema + (10000 \div ticks_since_death)) \div 10

\* reward_competent, core.py:957
RewardCompetent(l_ema, h_ema) == 10 * l_ema >= 9 * h_ema

\* survival_competent, core.py:958
SurvivalCompetent(d_ema, baseline) == 10 * d_ema <= 12 * baseline

\* max(floor, p * 0.9999), core.py:947
WarmupDecay(p) == Max(POLICY_TEACHER_MIN, MulDiv(p, WARMUP_DECAY, 10000))

\* a decay without the floor
TrustDecayNoFloor(p) == MulDiv(p, POLICY_TEACHER_DECAY, 1000)

\* max(floor, p * decay), core.py:964
TrustDecay(p) == Max(POLICY_TEACHER_MIN, MulDiv(p, POLICY_TEACHER_DECAY, 1000))

\* min(0.85, p * 1.0005), core.py:968
TrustRecover(p) == Min(RECOVERY_CAP, MulDiv(p, RECOVERY_RATE, 10000))

\* a baseline that follows the lowest death rate after warm-up as well
BaselineNeverFrozen(samples, d_ema, baseline) == IF d_ema < baseline THEN d_ema ELSE baseline

\* the baseline death rate after the update, core.py:940-945: during warm-up it
\* tracks the lowest death-rate EMA seen, afterwards it is not written
BaselineAfter(samples, d_ema, baseline) ==
    IF samples < POLICY_TEACHER_WARMUP /\ d_ema < baseline THEN d_ema ELSE baseline

\* a branch choice that decays on the reward test alone
TrustCaseRewardOnly(samples, l_ema, h_ema, d_ema, baseline) ==
    IF samples < POLICY_TEACHER_WARMUP THEN "warmup"
    ELSE IF /\ samples >= POLICY_TEACHER_WARMUP + MIN_EVAL_EXTRA
            /\ RewardCompetent(l_ema, h_ema) THEN "competent"
    ELSE IF /\ samples >= POLICY_TEACHER_WARMUP + MIN_EVAL_EXTRA
            /\ ~SurvivalCompetent(d_ema, baseline) THEN "recover"
    ELSE "hold"

\* the branch the update takes, core.py:940-969
TrustCase(samples, l_ema, h_ema, d_ema, baseline) ==
    IF samples < POLICY_TEACHER_WARMUP THEN "warmup"
    ELSE IF /\ samples >= POLICY_TEACHER_WARMUP + MIN_EVAL_EXTRA
            /\ RewardCompetent(l_ema, h_ema)
            /\ SurvivalCompetent(d_ema, baseline) THEN "competent"
    ELSE IF /\ samples >= POLICY_TEACHER_WARMUP + MIN_EVAL_EXTRA
            /\ ~SurvivalCompetent(d_ema, baseline) THEN "recover"
    ELSE "hold"

Rewards == {0, 100}             \* reward of the executed decision
DeathGaps == {5, 1000}          \* ticks since the previous death

\* teacher probability, learned samples and reward EMAs a run starts with:
\* __init__, or load_state restoring what an earlier run saved (persistence.py:265-270)
TrustStarts ==
    { [tp |-> TRUST_INIT, samples |-> 0, l_ema |-> 0, h_ema |-> 0] }
    \cup { [tp |-> p, samples |-> POLICY_TEACHER_WARMUP - 2, l_ema |-> l, h_ema |-> 50] :
             p \in {818700, 100050}, l \in {10, 50} }
    \cup { [tp |-> p, samples |-> POLICY_TEACHER_WARMUP + MIN_EVAL_EXTRA,
            l_ema |-> l, h_ema |-> 50] :
             p \in {849900, 100050}, l \in {10, 50} }

\* steps 7-10 of a tick that reaches the arbiter, core.py:914-969
TrustTick ==
    /\ trust_ticks < MaxTrustTicks
    /\ \E used \in BOOLEAN, reward \in Rewards :
         LET l1 == IF used THEN RewardEma(learned_ema, reward) ELSE learned_ema
             h1 == IF used THEN heuristic_ema ELSE RewardEma(heuristic_ema, reward)
             n1 == IF used THEN learned_samples + 1 ELSE learned_samples
             b1 == BaselineAfter(n1, death_rate_ema, baseline_death_rate)
             c  == TrustCase(n1, l1, h1, death_rate_ema, b1)
         IN
         /\ learned_ema' = l1
         /\ heuristic_ema' = h1
         /\ learned_samples' = n1
         /\ baseline_death_rate' = b1
         /\ baseline_frozen' = (baseline_frozen \/ n1 >= POLICY_TEACHER_WARMUP)
         /\ trust_case' = c
         /\ tp' = CASE c = "warmup"    -> WarmupDecay(tp)
                    [] c = "competent" -> TrustDecay(tp)
                    [] c = "recover"   -> TrustRecover(tp)
                    [] OTHER           -> tp
    /\ trust_ticks' = trust_ticks + 1
    /\ UNCHANGED death_rate_ema
    /\ UNCHANGED notTrustVars

\* the death branch of tick: the death-rate EMA moves, the trust update is not reached
TrustDeath ==
    /\ trust_ticks < MaxTrustTicks
    /\ \E gap \in DeathGaps : death_rate_ema' = DeathRateEma(death_rate_ema, gap)
    /\ trust_ticks' = trust_ticks + 1
    /\ trust_case' = "death"
    /\ UNCHANGED << tp, learned_samples, learned_ema, heuristic_ema,
                    baseline_death_rate, baseline_frozen >>
    /\ UNCHANGED notTrustVars

-----------------------------------------------------------------------------
(* SurplusTensionModule.step, surplus_tension.py:239-303, followed by the   *)
(* on_rupture call of tick (core.py:718-733) when it reports a rupture.    *)

RawSigma == {0, 100}            \* compute_curvature clips to [0, 1]
DynStats == {0, 65}             \* mean + k_effective * std of the recent history

\* raw curvature of a step: 0 until the surplus history holds CURVATURE_MIN_SURPLUS values
RawSigmaAt(steps) == IF steps < CURVATURE_MIN_SURPLUS THEN {0} ELSE RawSigma

\* 0.9 * sigma_ema + 0.1 * sigma
SigmaEma(ema, sigma) == (9 * ema + sigma) \div 10

StStep ==
    /\ st_steps < MaxSteps
    /\ \E sigma \in RawSigmaAt(st_steps + 1) :
         LET hist == Min(HISTORY_SIZE, st_hist_len + 1)
             ema  == SigmaEma(st_sigma_ema, sigma)
         IN
         \E stat \in (IF st_cooldown = 0 /\ hist >= MIN_HISTORY THEN DynStats ELSE {0}) :
           LET cr == CheckRupture(st_cooldown, ema, DynamicThreshold(hist, stat))
           IN
           /\ st_sigma_ema' = ema
           /\ st_cooldown' = cr.cooldown
           /\ st_should_rupture' = cr.rupture
           /\ st_ruptures' = IF cr.rupture THEN st_ruptures + 1 ELSE st_ruptures
           \* on_rupture keeps the last RUPTURE_KEEP values of the histories
           /\ st_hist_len' = IF cr.rupture THEN Min(RUPTURE_KEEP, hist) ELSE hist
           /\ st_since_rupture' = IF cr.rupture THEN 0
                                  ELSE IF st_since_rupture = -1 THEN -1
                                  ELSE st_since_rupture + 1
           /\ st_gap' = IF cr.rupture /\ st_since_rupture # -1
                        THEN st_since_rupture ELSE st_gap
    /\ st_steps' = st_steps + 1
    /\ UNCHANGED notSTVars

-----------------------------------------------------------------------------
(* OllamaReasoner._parse_plan_response and its caller reason_plan,         *)
(* ollama.py:378-534.  A response content is modelled by what json.loads   *)
(* makes of it; a plan entry by whether it is a dict and which keys it has.*)

\* entries of the response's plan list that the contents explored carry
MaxItems == 6
\* plan[:5]
MAX_PLAN_STEPS == 5

\* the keys of a step of a returned plan
StepKeys == {"tool", "args", "thought"}

Item(d, k) == [dict |-> d, keys |-> k]

\* a non-dict entry, an empty dict, a dict with only 'tool', a complete step
ItemShapes == { Item(FALSE, {}), Item(TRUE, {}), Item(TRUE, {"tool"}),
                Item(TRUE, StepKeys) }

Content(j, k, l) == [json |-> j, plan_kind |-> k, plan |-> l]

\* text that is not JSON; JSON that is not an object (a list, a number, a string,
\* null); an object without 'plan', with a 'plan' that is not a list, with a list
Contents ==
    { Content("invalid", "none", << >>), Content("nonobject", "none", << >>),
      Content("object", "missing", << >>), Content("object", "nonlist", << >>) }
    \cup { Content("object", "list", l) :
             l \in UNION { [1..n -> ItemShapes] : n \in 0..MaxItems } }

\* energy < 0.3; otherwise strategy == "explore"; otherwise
FallbackContexts == {"low_energy", "explore", "other"}

\* _fallback_plan: the steps of the fixed plans, each written with all three keys
FallbackPlan(ctx) ==
    IF ctx = "low_energy" THEN << StepKeys, StepKeys >>
    ELSE IF ctx = "explore" THEN << StepKeys, StepKeys, StepKeys >>
    ELSE << StepKeys >>

Outcome(c, r, f, p) == [called |-> c, raised |-> r, fallback |-> f, plan |-> p]
NotCalled == Outcome(FALSE, FALSE, FALSE, << >>)

\* isinstance(step, dict) and "tool" in step
ValidItem(item) == item.dict /\ "tool" \in item.keys

\* the dict appended for a valid entry: 'tool', 'args', 'thought' read with defaults
ValidStep(item) == item.keys \cup {"tool", "args", "thought"}

\* the for loop over plan[:5]
ValidPlan(l) ==
    LET head == SubSeq(l, 1, Min(MAX_PLAN_STEPS, Len(l)))
        kept == SelectSeq(head, ValidItem)
    IN [i \in 1..Len(kept) |-> ValidStep(kept[i])]

\* data.get on a value that is not a dict: AttributeError, which the except clause
\* (json.JSONDecodeError, KeyError) does not catch
GetOnNonObject(ctx) == Outcome(TRUE, TRUE, FALSE, << >>)

ParsePlanResponse(content, ctx) ==
    IF content.json = "invalid" THEN Outcome(TRUE, FALSE, TRUE, FallbackPlan(ctx))
    ELSE IF content.json = "nonobject" THEN GetOnNonObject(ctx)
    ELSE IF content.plan_kind # "list" \/ content.plan = << >>
         THEN Outcome(TRUE, FALSE, TRUE, FallbackPlan(ctx))
    ELSE IF ValidPlan(content.plan) = << >>
         THEN Outcome(TRUE, FALSE, TRUE, FallbackPlan(ctx))
    ELSE Outcome(TRUE, FALSE, FALSE, ValidPlan(content.plan))

\* reason_plan from the response on: the call of _parse_plan_response is inside
\* try ... except Exception: return self._fallback_plan(strategy, energy)
ReasonPlan(content, ctx) ==
    LET r == ParsePlanResponse(content, ctx)
    IN IF r.raised THEN Outcome(TRUE, FALSE, TRUE, FallbackPlan(ctx)) ELSE r

ParsePlanCall ==
    /\ ~parse_out.called
    /\ parse_out' = ParsePlanResponse(parse_content, parse_ctx)
    /\ UNCHANGED << parse_content, parse_ctx, reason_out >>
    /\ UNCHANGED notParseVars

ReasonPlanCall ==
    /\ ~reason_out.called
    /\ reason_out' = ReasonPlan(parse_content, parse_ctx)
    /\ UNCHANGED << parse_content, parse_ctx, parse_out >>
    /\ UNCHANGED notParseVars

-----------------------------------------------------------------------------
(* The three threads that touch the dynamics engine or the reasoner:       *)
(* _bg_loop (core.py:460-464), the caller of tick (core.py:619-1062) and    *)
(* _llm_reason (core.py:856-866), with the lock self._lock.                 *)

\* tick() calls explored per run of SpecLock
MaxLockTicks == 3

\* threading.Lock.acquire succeeds only on a free lock
CanAcquireAlways(holder) == TRUE
CanAcquire(holder) == holder = "none"

\* the positions at which a thread executes self.emile.step
BgStepping == bg_pc = "step"
TickStepping == lock_tick_pc \in {"step1", "step2"}
\* the positions at which the tick thread is at a blocking call
TickAtAcquire == lock_tick_pc \in {"acquire1", "acquire2"}

\* while self._running
BgTest ==
    /\ bg_pc = "test"
    /\ bg_pc' = IF running THEN "acquire" ELSE "exited"
    /\ UNCHANGED << lock_holder, lock_tick_pc, lock_llm_pc, running, lock_ticks >>
    /\ UNCHANGED notLockVars

\* with self._lock:
BgAcquire ==
    /\ bg_pc = "acquire" /\ CanAcquire(lock_holder)
    /\ lock_holder' = "bg" /\ bg_pc' = "step"
    /\ UNCHANGED << lock_tick_pc, lock_llm_pc, running, lock_ticks >>
    /\ UNCHANGED notLockVars

\* self.emile.step(dt=0.01) returns and the with block releases the lock
BgStep ==
    /\ bg_pc = "step"
    /\ lock_holder' = "none" /\ bg_pc' = "sleep"
    /\ UNCHANGED << lock_tick_pc, lock_llm_pc, running, lock_ticks >>
    /\ UNCHANGED notLockVars

\* time.sleep(0.05)
BgSleep ==
    /\ bg_pc = "sleep"
    /\ bg_pc' = "test"
    /\ UNCHANGED << lock_holder, lock_tick_pc, lock_llm_pc, running, lock_ticks >>
    /\ UNCHANGED notLockVars

\* tick() of a dead agent: respawn or wait, return before the dynamics update
LockTickDeath ==
    /\ lock_tick_pc = "idle" /\ lock_ticks < MaxLockTicks
    /\ lock_ticks' = lock_ticks + 1
    /\ UNCHANGED << lock_holder, bg_pc, lock_tick_pc, lock_llm_pc, running >>
    /\ UNCHANGED notLockVars

\* tick() of a living agent reaches 'with self._lock' of step 1
LockTickBegin ==
    /\ lock_tick_pc = "idle" /\ lock_ticks < MaxLockTicks
    /\ lock_tick_pc' = "acquire1"
    /\ UNCHANGED << lock_holder, bg_pc, lock_llm_pc, running, lock_ticks >>
    /\ UNCHANGED notLockVars

LockTickAcquire ==
    /\ TickAtAcquire /\ CanAcquire(lock_holder)
    /\ lock_holder' = "tick"
    /\ lock_tick_pc' = IF lock_tick_pc = "acquire1" THEN "step1" ELSE "step2"
    /\ UNCHANGED << bg_pc, lock_llm_pc, running, lock_ticks >>
    /\ UNCHANGED notLockVars

\* emile.step(dt=0.01, reward 0) returns, the with block releases the lock; the
\* tick goes on to strategy, surplus tension, arbiter and gateway
LockTickStep1 ==
    /\ lock_tick_pc = "step1"
    /\ lock_holder' = "none" /\ lock_tick_pc' = "decide"
    /\ UNCHANGED << bg_pc, lock_llm_pc, running, lock_ticks >>
    /\ UNCHANGED notLockVars

\* steps 2-11 of the tick; the gateway may start a _llm_reason thread when none
\* is running (self._llm_busy), and does not wait for it
LockTickDecide ==
    /\ lock_tick_pc = "decide"
    /\ \E fire \in BOOLEAN :
         lock_llm_pc' = IF fire /\ lock_llm_pc = "none" THEN "calling" ELSE lock_llm_pc
    /\ lock_tick_pc' = "acquire2"
    /\ UNCHANGED << lock_holder, bg_pc, running, lock_ticks >>
    /\ UNCHANGED notLockVars

\* emile.step(dt=0.005, reward) returns, the lock is released, tick() returns
LockTickStep2 ==
    /\ lock_tick_pc = "step2"
    /\ lock_holder' = "none" /\ lock_tick_pc' = "idle"
    /\ lock_ticks' = lock_ticks + 1
    /\ UNCHANGED << bg_pc, lock_llm_pc, running >>
    /\ UNCHANGED notLockVars

\* self.llm.reason_plan / reason returns or raises; the thread ends
LockLlmReturn ==
    /\ lock_llm_pc = "calling"
    /\ lock_llm_pc' = "none"
    /\ UNCHANGED << lock_holder, bg_pc, lock_tick_pc, running, lock_ticks >>
    /\ UNCHANGED notLockVars

\* stop(), called between ticks by the thread that calls tick()
LockStop ==
    /\ lock_tick_pc = "idle" /\ running
    /\ running' = FALSE
    /\ UNCHANGED << lock_holder, bg_pc, lock_tick_pc, lock_llm_pc, lock_ticks >>
    /\ UNCHANGED notLockVars

-----------------------------------------------------------------------------
(* Energy and hydration over a tick, core.py:619-672 and 868-1039 with the *)
(* tools that change them (core.py:230-407).  Ten-thousandths.             *)

\* ticks explored per run of SpecVitals
MaxVitalTicks == 3

VITAL_FULL == 10000         \* self.energy = 1.0, min(1.0, ...)
BASAL_ENERGY == 20          \* self.energy -= 0.002
BASAL_HYDRATION == 8        \* self.hydration -= 0.0008
HEAT_DRAIN == 20            \* 0.002 * w.intensity at intensity 1, energy and hydration
STORM_DRAIN == 200          \* 0.02 * w.intensity at intensity 1
MOVE_COST_UNIT == 80        \* base * 0.008
HAZARD_DAMAGE == 1500       \* Hazard.damage
FOOD_ENERGY == 2500         \* Food.energy_value
WATER_HYDRATION == 3000     \* Water.hydration_value
REST_RECOVERY == 300        \* recovery = 0.03

\* world.weather.current as it bears on metabolism
Weathers == {"clear", "heat_wave", "storm_exposed"}

Vital(e, h) == [energy |-> e, hydration |-> h]

\* basal metabolism and weather, before the death check
Metabolism(v, weather) ==
    LET e == v.energy - BASAL_ENERGY
        h == v.hydration - BASAL_HYDRATION
    IN IF weather = "heat_wave" THEN Vital(e - HEAT_DRAIN, h - HEAT_DRAIN)
       ELSE IF weather = "storm_exposed" THEN Vital(e - STORM_DRAIN, h)
       ELSE Vital(e, h)

\* what the executed tool does to the vitals: a tool that leaves them alone, a move
\* onto plains, a move onto rock, a move onto a hazard, consume, drink, rest
ToolEffects == {"other", "move_plains", "move_rock", "move_hazard", "consume",
                "drink", "rest"}

ToolEffect(v, tool) ==
    IF tool = "move_plains" THEN Vital(v.energy - MOVE_COST_UNIT, v.hydration)
    ELSE IF tool = "move_rock" THEN Vital(v.energy - 3 * MOVE_COST_UNIT, v.hydration)
    ELSE IF tool = "move_hazard"
         THEN Vital(v.energy - MOVE_COST_UNIT - HAZARD_DAMAGE, v.hydration)
    ELSE IF tool = "consume"
         THEN Vital(Min(VITAL_FULL, v.energy + FOOD_ENERGY), v.hydration)
    ELSE IF tool = "drink"
         THEN Vital(v.energy, Min(VITAL_FULL, v.hydration + WATER_HYDRATION))
    ELSE IF tool = "rest"
         THEN Vital(Min(VITAL_FULL, v.energy + REST_RECOVERY), v.hydration)
    ELSE v

\* goal pressure 0.001 * (1 - satisfaction) and novelty effect (novelty - 0.3) * 0.002,
\* both factors clipped to [0.1, 0.9]: the two extremes of their sum
Drifts == {-13, 11}

\* energy and hydration a run starts with: __init__, or load_state restoring what
\* an earlier run saved (persistence.py:245-246) near exhaustion or long without water
VitalStarts == { Vital(VITAL_FULL, VITAL_FULL), Vital(100, 5000), Vital(5000, 8) }

\* one tick of a living or dead agent
VitalsTick ==
    /\ v_ticks < MaxVitalTicks
    /\ \E weather \in Weathers, tool \in ToolEffects, drift \in Drifts :
         LET v0 == IF v_alive THEN Vital(v_energy, v_hydration)
                   ELSE Vital(VITAL_FULL, VITAL_FULL)          \* _respawn
             v1 == Metabolism(v0, weather)
             dies == v1.energy <= 0
             v2 == ToolEffect(v1, tool)
             v3 == Vital(v2.energy + drift, v2.hydration)
         IN /\ v_alive' = ~dies
            /\ v_energy' = IF dies THEN v1.energy ELSE v3.energy
            /\ v_hydration' = IF dies THEN v1.hydration ELSE v3.hydration
    /\ v_ticks' = v_ticks + 1
    /\ UNCHANGED notVitalVars

-----------------------------------------------------------------------------
(* DemonstrationBuffer (demo_buffer.py:20-136) as the tick uses it:        *)
(* recording (core.py:884-893), survival back-fill (895-899) and on_death  *)
(* in the death branch (665-666).  Weights are in ten-thousandths.         *)

\* max_size of the buffer explored (the agent constructs it with 20000)
DemoCapacity == 3
\* ticks explored per run of SpecDemo
MaxDemoTicks == 9
\* total_ticks at which the runs of SpecDemo begin
WarmDemoTick == 42
\* ticks explored per run of SpecBuffers
MaxBufferTicks == 5

ON_DEATH_WINDOW == 20       \* on_death: the last 20 demonstrations
DEATH_CREDIT_CAP == 5       \* min(survival_ticks, 5)
SURVIVAL_LOOKBACK == 50     \* update_survival(..., lookback=50)
SURVIVAL_INTERVAL == 50     \* if self.total_ticks % 50 == 0
WEIGHT_BASE == 10000        \* w = 1.0
WEIGHT_MIN == 1000          \* max(0.1, w)

\* self._decision_source and the reward of the executed decision (hundredths)
DemoInput(s, r) == [source |-> s, reward |-> r]
DemoInputs == { DemoInput("learned", 50), DemoInput("teacher_heuristic", 50),
                DemoInput("teacher_plan", 50), DemoInput("teacher_llm", -50) }

\* the dict add() appends; seq numbers the add() calls, capped marks the entries
\* on_death has capped
Demo(n, in) == [seq |-> n, source |-> in.source, reward |-> in.reward,
                survival_ticks |-> 0, capped |-> FALSE]

\* deque(maxlen=max_size).append
DequeAppendUnbounded(buf, d, cap) == Append(buf, d)
DequeAppend(buf, d, cap) ==
    IF Len(buf) >= cap THEN Append(Tail(buf), d) ELSE Append(buf, d)

\* if not self._used_learned and granular_action_for_penalty in KOSMOS_ACTIONS
RecordedAlways(used, recordable) == recordable
Recorded(used, recordable) == ~used /\ recordable

\* update_survival(ticks_survived, lookback=50)
UpdateSurvival(buf, ticks_survived) ==
    [i \in 1..Len(buf) |->
        IF i > Len(buf) - SURVIVAL_LOOKBACK
        THEN [buf[i] EXCEPT !.survival_ticks = Max(@, ticks_survived)]
        ELSE buf[i]]

\* on_death()
OnDeath(buf) ==
    [i \in 1..Len(buf) |->
        IF i > Len(buf) - ON_DEATH_WINDOW
        THEN [buf[i] EXCEPT !.survival_ticks = Min(@, DEATH_CREDIT_CAP),
                            !.capped = TRUE]
        ELSE buf[i]]

\* 1 + 2 * max(0, reward) + 0.01 * survival_ticks
BaseWeight(d) == WEIGHT_BASE + 200 * Max(0, d.reward) + 100 * d.survival_ticks

\* the weight sample() gives a demonstration
SampleWeight(d) ==
    Max(WEIGHT_MIN, IF d.source = "llm" THEN (12 * BaseWeight(d)) \div 10
                    ELSE BaseWeight(d))

\* a tick that reaches the recording step: the arbiter sets _used_learned together
\* with the source 'learned'
DemoTick ==
    /\ d_ticks - WarmDemoTick < MaxDemoTicks
    /\ \E in \in DemoInputs, recordable \in BOOLEAN :
         LET now == d_ticks + 1
             rec == Recorded(in.source = "learned", recordable)
             buf1 == IF rec THEN DequeAppend(demo_buf, Demo(demo_added + 1, in), DemoCapacity)
                     ELSE demo_buf
             since == d_since_death + 1
         IN /\ d_ticks' = now
            /\ d_source' = in.source
            /\ demo_added' = IF rec THEN demo_added + 1 ELSE demo_added
            /\ d_since_death' = since
            /\ demo_buf' = IF now % SURVIVAL_INTERVAL = 0 THEN UpdateSurvival(buf1, since)
                           ELSE buf1
    /\ UNCHANGED notDemoVars

\* a tick that ends in the death branch
DemoDeath ==
    /\ d_ticks - WarmDemoTick < MaxDemoTicks
    /\ d_ticks' = d_ticks + 1
    /\ d_since_death' = 0
    /\ demo_buf' = OnDeath(demo_buf)
    /\ UNCHANGED << demo_added, d_source >>
    /\ UNCHANGED notDemoVars

-----------------------------------------------------------------------------
(* The two TD(lambda) learners: GoalModuleV2 (goal_v2.py:91-216) and       *)
(* GoalMapper (goal_mapper.py:110-195), on a table of two states and two   *)
(* actions.  Q values, rewards and TD errors are in thousandths; traces    *)
(* are in units of 1e-7.                                                   *)

\* select_goal / update / reset_episode calls explored per run of SpecTD
MaxTdOps == 4

TRACE_ONE == 10000000       \* eligibility 1.0
TRACE_MIN == 10             \* 1e-6
GAMMA_PCT == 80             \* gamma = 0.8
LAMBDA_PCT == 70            \* lambda_trace = 0.7
ALPHA_V2_PCT == 10          \* GoalModuleV2.alpha = 0.1
ALPHA_MAPPER_PCT == 15      \* GoalMapper alpha = 0.15
WARM_START_BONUS == 300     \* _warm_start: bonus = 0.3
REWARDS_WINDOW == 10        \* recent_rewards_window

Learners == {"goal_v2", "goal_mapper"}
TdStates == {"s1", "s2"}
TdActions == {"a1", "a2"}
Pairs == TdStates \X TdActions
NoCur == << "none", "none" >>

Abs(x) == IF x < 0 THEN -x ELSE x
Sign(x) == IF x > 0 THEN 1 ELSE IF x < 0 THEN -1 ELSE 0
CeilDiv(n, d) == (n + d - 1) \div d

\* gamma * q, rounded toward zero
Discount(q) == Sign(q) * ((Abs(q) * GAMMA_PCT) \div 100)

\* e * (gamma * lambda_trace)
Decay(e) == MulDiv(e, GAMMA_PCT * LAMBDA_PCT, 10000)

\* DeltaQ without the sign of the TD error
DeltaQUnsigned(td_error, e, num, den) ==
    CeilDiv(CeilDiv(Abs(td_error) * (e \div 1000), 10000) * num, den)

\* alpha * td_error * e with alpha = num / den; the magnitude is rounded up to the
\* next thousandth, so that a change that is not zero in exact arithmetic is not
\* zero here; traces below 1e-4 contribute nothing at this resolution
DeltaQ(td_error, e, num, den) ==
    Sign(td_error) * CeilDiv(CeilDiv(Abs(td_error) * (e \div 1000), 10000) * num, den)

\* np.max(self.Q[next_state])
MaxQ(Q, s) == Max(Q[<< s, "a1" >>], Q[<< s, "a2" >>])

\* td_target - current_q, where td_target is the reward when done, and
\* reward + gamma * max Q(next) otherwise
TdError(l, reward, next, done) ==
    (IF done THEN reward ELSE reward + Discount(MaxQ(l.Q, next))) - l.Q[l.cur]

ZeroTable == [p \in Pairs |-> 0]

\* the learner object: Q table, eligibility table with the keys it holds,
\* current (state, action), visit counts, recent_rewards, total_updates, and what
\* the latest call returned ("goal" from select_goal, "stats" or "empty" from update)
Learner(q, e, rows, cur, visits, rewards, updates, out) ==
    [Q |-> q, e |-> e, rows |-> rows, cur |-> cur, visits |-> visits,
     rewards |-> rewards, updates |-> updates, out |-> out]

\* GoalModuleV2.update: recent_rewards.append(reward), cut to the last
\* recent_rewards_window once longer than twice the window
TrackReward(rewards, reward) ==
    LET r == Append(rewards, reward)
    IN IF Len(r) > 2 * REWARDS_WINDOW
       THEN SubSeq(r, Len(r) - REWARDS_WINDOW + 1, Len(r)) ELSE r

\* GoalModuleV2.select_goal: sets the current pair and counts the visit
SelectV2(l, s, a) ==
    [l EXCEPT !.cur = << s, a >>, !.visits[<< s, a >>] = @ + 1, !.out = "goal"]

\* GoalMapper.select_goal: decays the stored traces when a pair was current, then
\* sets the trace of the selected pair to 1.0
SelectMapper(l, s, a) ==
    LET e1 == IF l.cur # NoCur
              THEN [p \in Pairs |-> IF p[1] \in l.rows THEN Decay(l.e[p]) ELSE l.e[p]]
              ELSE l.e
    IN [l EXCEPT !.e = [e1 EXCEPT ![<< s, a >>] = TRACE_ONE],
                 !.rows = @ \cup {s}, !.cur = << s, a >>, !.out = "goal"]

\* GoalModuleV2.update: the trace of the current pair is incremented, then every
\* stored trace above 1e-6 moves its Q value and is decayed; nothing is removed
UpdateV2(l, reward, next, done) ==
    IF l.cur = NoCur THEN [l EXCEPT !.out = "empty"]
    ELSE LET err == TdError(l, reward, next, done)
             e1 == [l.e EXCEPT ![l.cur] = @ + TRACE_ONE]
             rows1 == l.rows \cup {l.cur[1]}
             live(p) == p[1] \in rows1 /\ e1[p] > TRACE_MIN
         IN [l EXCEPT
               !.Q = [p \in Pairs |->
                        IF live(p)
                        THEN l.Q[p] + DeltaQ(err, e1[p], ALPHA_V2_PCT, 100 + l.visits[l.cur])
                        ELSE l.Q[p]],
               !.e = [p \in Pairs |-> IF live(p) THEN Decay(e1[p]) ELSE e1[p]],
               !.rows = rows1,
               !.rewards = TrackReward(@, reward),
               !.updates = @ + 1, !.out = "stats"]

\* a key of GoalMapper.eligibility is deleted when all its traces are below 1e-6
RowKept(e, s) == Max(e[<< s, "a1" >>], e[<< s, "a2" >>]) >= TRACE_MIN

\* GoalMapper.update: every stored row moves its Q values, is decayed, and is
\* deleted when all its traces are below 1e-6
UpdateMapper(l, reward, next, done) ==
    IF l.cur = NoCur THEN [l EXCEPT !.out = "empty"]
    ELSE LET err == TdError(l, reward, next, done)
             e1 == [p \in Pairs |-> IF p[1] \in l.rows THEN Decay(l.e[p]) ELSE l.e[p]]
             kept == { s \in l.rows : RowKept(e1, s) }
         IN [l EXCEPT
               !.Q = [p \in Pairs |->
                        IF p[1] \in l.rows
                        THEN l.Q[p] + DeltaQ(err, l.e[p], ALPHA_MAPPER_PCT, 100)
                        ELSE l.Q[p]],
               !.e = [p \in Pairs |-> IF p[1] \in kept THEN e1[p] ELSE 0],
               !.rows = kept,
               !.updates = @ + 1, !.out = "stats"]

\* reset_episode of either learner
ResetEpisode(l) == [l EXCEPT !.e = ZeroTable, !.rows = {}, !.cur = NoCur, !.out = "none"]

\* the death branch of tick, and respawn: reset_episode is called on the GoalMapper
\* only
DeathReset(which, l) == IF which = "goal_mapper" THEN ResetEpisode(l) ELSE l

Select(which, l, s, a) == IF which = "goal_v2" THEN SelectV2(l, s, a) ELSE SelectMapper(l, s, a)
\* an update that counts the call whatever the current pair is
UpdateUnguarded(which, l, reward, next, done) ==
    [l EXCEPT !.rewards = TrackReward(@, reward), !.updates = @ + 1, !.out = "stats"]

Update(which, l, reward, next, done) ==
    IF which = "goal_v2" THEN UpdateV2(l, reward, next, done)
    ELSE UpdateMapper(l, reward, next, done)

\* one tick with reward 0 on a zero Q table: select_goal, then update
QuietRound(which, l, s, a) == Update(which, Select(which, l, s, a), 0, s, FALSE)

\* the learner after ticks that keep selecting (s2, a2) while the trace of (s1, a1)
\* fades, up to the last tick that leaves that trace at 1e-6 or above
\* a table written out entry by entry, and a learner with its tables written out:
\* the same values, held as values rather than as expressions to evaluate
Stored(f) ==
    (<< "s1", "a1" >> :> f[<< "s1", "a1" >>]) @@ (<< "s1", "a2" >> :> f[<< "s1", "a2" >>])
    @@ (<< "s2", "a1" >> :> f[<< "s2", "a1" >>]) @@ (<< "s2", "a2" >> :> f[<< "s2", "a2" >>])

StoredLearner(l) ==
    Learner(Stored(l.Q), Stored(l.e), l.rows, l.cur, Stored(l.visits),
            l.rewards, l.updates, l.out)

RECURSIVE Fade(_, _)
Fade(which, l) ==
    CHOOSE r \in { IF n.e[<< "s1", "a1" >>] >= TRACE_MIN THEN Fade(which, n) ELSE l :
                     n \in {StoredLearner(QuietRound(which, l, "s2", "a2"))} } : TRUE

FreshLearner(q) == Learner(q, ZeroTable, {}, NoCur, ZeroTable, << >>, 0, "none")

\* the fading starts after a tick that selected (s1, a1), or after that tick and
\* one more update call
FadedLearner(which, again) ==
    LET first == QuietRound(which, FreshLearner(ZeroTable), "s1", "a1")
    IN Fade(which, StoredLearner(IF again THEN Update(which, first, 0, "s1", FALSE) ELSE first))

\* Q tables a run starts with: zeros (GoalModuleV2.__init__), the warm-start bonus
\* on one action per state (GoalMapper._warm_start), a table after learning
QStarts ==
    { ZeroTable,
      [p \in Pairs |-> IF p[2] = "a1" THEN WARM_START_BONUS ELSE 0],
      [p \in Pairs |-> IF p = << "s1", "a1" >> THEN -500
                       ELSE IF p = << "s2", "a2" >> THEN 1000 ELSE 0] }

\* rewards of a tick
TdRewards == {-1000, 0, 1000}

\* observations of the latest call
TdObserve(op, prev, err) ==
    /\ td_last_op' = op
    /\ td_prev_e' = prev.e
    /\ td_last_err' = err
    /\ td_last_dq' = IF prev.cur = NoCur THEN 0 ELSE td'.Q[prev.cur] - prev.Q[prev.cur]
    /\ td_ops' = td_ops + 1

TdSelect ==
    /\ td_ops < MaxTdOps
    /\ \E s \in TdStates, a \in TdActions : td' = Select(td_learner, td, s, a)
    /\ TdObserve("select", td, 0)
    /\ UNCHANGED td_learner
    /\ UNCHANGED notTdVars

TdUpdate ==
    /\ td_ops < MaxTdOps
    /\ \E reward \in TdRewards, next \in TdStates, done \in BOOLEAN :
         /\ td' = Update(td_learner, td, reward, next, done)
         /\ TdObserve(IF td.cur = NoCur THEN "update_skipped"
                      ELSE IF td_last_op = "select" THEN "update"
                      ELSE "update_again",
                      td,
                      IF td.cur = NoCur THEN 0 ELSE TdError(td, reward, next, done))
    /\ UNCHANGED td_learner
    /\ UNCHANGED notTdVars

TdReset ==
    /\ td_ops < MaxTdOps
    /\ td' = ResetEpisode(td)
    /\ TdObserve("reset", td, 0)
    /\ UNCHANGED td_learner
    /\ UNCHANGED notTdVars

\* a tick that ends in the death branch, seen from either learner
TdDeathTick ==
    /\ td_ops < MaxTdOps
    /\ td' = DeathReset(td_learner, td)
    /\ TdObserve("death", td, 0)
    /\ UNCHANGED td_learner
    /\ UNCHANGED notTdVars

-----------------------------------------------------------------------------
(* The warm-started GoalMapper before any update (goal_mapper.py:62-134).   *)
(* Energy and health are the fractions n / GridSteps.                       *)

\* energy and health take the values 0/GridSteps .. GridSteps/GridSteps
GridSteps == 12
\* greedy selections explored per run of SpecWarm
MaxWarmCalls == 1

ENERGY_BINS == 5            \* for e_bin in range(5); int(energy * 5)
HEALTH_BINS == 3            \* for h_bin in range(3); int(health * 3)

STRATEGIES == << "explore", "exploit", "rest", "learn", "social" >>

EMBODIED_GOALS ==
    << "explore_space", "seek_food", "find_shelter", "rest_recover",
       "manipulate_objects", "social_interact", "categorize_experience" >>

\* _hardcoded_goal with energy = en / ed and health = hn / hd:
\* energy < 0.4 is 10 en < 4 ed, health < 0.5 is 2 hn < hd
HardcodedGoal(strategy, en, ed, hn, hd) ==
    IF strategy = "rest" THEN "rest_recover"
    ELSE IF strategy = "social" THEN "social_interact"
    ELSE IF strategy = "learn" THEN "categorize_experience"
    ELSE IF strategy = "explore" THEN "explore_space"
    ELSE IF 10 * en < 4 * ed THEN "seek_food"
    ELSE IF 2 * hn < hd THEN "find_shelter"
    ELSE "manipulate_objects"

\* min(int(x * bins), bins - 1) for x = n / GridSteps
Bin(n, bins) == Min((n * bins) \div GridSteps, bins - 1)

\* _discretize_state
DiscretizeState(strategy, energy, health, food, shelter) ==
    [s |-> strategy, e_bin |-> Bin(energy, ENERGY_BINS), h_bin |-> Bin(health, HEALTH_BINS),
     food |-> food, shelter |-> shelter]

\* the Q row of a state after _warm_start: the bonus on the goal that
\* _hardcoded_goal returns for the midpoints (e_bin + 0.5) / 5 and (h_bin + 0.5) / 3
WarmQRow(state) ==
    LET goal == HardcodedGoal(state.s, 2 * state.e_bin + 1, 2 * ENERGY_BINS,
                              2 * state.h_bin + 1, 2 * HEALTH_BINS)
    IN [g \in 1..Len(EMBODIED_GOALS) |->
          IF EMBODIED_GOALS[g] = goal THEN WARM_START_BONUS ELSE 0]

\* np.argmax: the first index that holds the largest value
Argmax(row) ==
    CHOOSE g \in DOMAIN row :
        /\ \A h \in DOMAIN row : row[h] <= row[g]
        /\ \A h \in DOMAIN row : h < g => row[h] < row[g]

\* select_goal on its greedy branch: self.goals[argmax(self.Q[state])]
GreedyGoal(strategy, energy, health, food, shelter) ==
    EMBODIED_GOALS[Argmax(WarmQRow(DiscretizeState(strategy, energy, health, food, shelter)))]

WarmSelect ==
    /\ wm_calls < MaxWarmCalls
    /\ \E i \in 1..Len(STRATEGIES), energy \in 0..GridSteps, health \in 0..GridSteps,
          food \in BOOLEAN, shelter \in BOOLEAN :
         /\ wm_strategy' = STRATEGIES[i]
         /\ wm_energy' = energy /\ wm_health' = health
         /\ wm_food' = food /\ wm_shelter' = shelter
         /\ wm_goal' = GreedyGoal(STRATEGIES[i], energy, health, food, shelter)
    /\ wm_calls' = wm_calls + 1
    /\ UNCHANGED notWarmVars

-----------------------------------------------------------------------------
(* The death-sensitive rupture threshold: record_death, and the part of     *)
(* step that appends the curvature sample and checks for a rupture          *)
(* (surplus_tension.py:252, 271-289, 318-405).  Hundredths.                 *)

\* ticks explored per run of SpecThreshold
MaxThTicks == 4
\* total_ticks at which the runs of SpecThreshold begin
ThStartTick == 1000

K_BASE == 200               \* k_base = 2.0
K_MIN == 50                 \* k_min = 0.5
DEATH_PENALTY == 75         \* death_penalty = 0.75 * recent_deaths
DEATH_WINDOW == 200         \* death_window = 200
DEATH_KEEP == 500           \* record_death: cutoff = tick - 500
DEATH_WEIGHT == 30          \* 0.3 * death_factor
DEATH_CAP == 5              \* min(recent_deaths / 5.0, 1.0)

\* k_effective that rises with the deaths
KEffectiveRising(recent_deaths) == Max(K_MIN, K_BASE + DEATH_PENALTY * recent_deaths)

\* k_effective = max(k_min, k_base - 0.75 * recent_deaths)
KEffective(recent_deaths) == Max(K_MIN, K_BASE - DEATH_PENALTY * recent_deaths)

\* sum(1 for t in self.death_ticks if self._current_tick - t < death_window)
RecentDeaths(death_ticks, tick) ==
    Cardinality({ i \in DOMAIN death_ticks : tick - death_ticks[i] < DEATH_WINDOW })

\* record_death: append, then keep the ticks after tick - 500
RecordDeath(death_ticks, tick) ==
    SelectSeq(Append(death_ticks, tick), LAMBDA t : t > tick - DEATH_KEEP)

\* curvature_history[-min_history:]
Recent(history) ==
    IF Len(history) <= MIN_HISTORY THEN history
    ELSE SubSeq(history, Len(history) - MIN_HISTORY + 1, Len(history))

RECURSIVE SeqSum(_)
SeqSum(s) == IF s = << >> THEN 0 ELSE Head(s) + SeqSum(Tail(s))

RECURSIVE SeqSumSq(_)
SeqSumSq(s) == IF s = << >> THEN 0 ELSE Head(s) * Head(s) + SeqSumSq(Tail(s))

\* the largest r with r * r <= n, for n up to 100 * 100
ISqrt(n) == CHOOSE r \in 0..100 : r * r <= n /\ n < (r + 1) * (r + 1)

\* np.mean and np.std (population) of the recent samples, rounded down
SigmaMean(recent) == SeqSum(recent) \div Len(recent)
SigmaStd(recent) ==
    ISqrt((Len(recent) * SeqSumSq(recent) - SeqSum(recent) * SeqSum(recent))
          \div (Len(recent) * Len(recent)))

\* mean + k_effective * std of the recent history
DynStat(history, recent_deaths) ==
    IF Len(history) < MIN_HISTORY THEN 0
    ELSE SigmaMean(Recent(history))
         + (KEffective(recent_deaths) * SigmaStd(Recent(history))) \div 100

\* _compute_dynamic_threshold for a history and a number of recent deaths
ComputeDynamicThreshold(history, recent_deaths) ==
    DynamicThreshold(Len(history), DynStat(history, recent_deaths))

\* compute_curvature: the share 0.3 * min(recent_deaths / 5, 1) of the curvature,
\* which no sample of a step is below
DeathShare(recent_deaths) == (DEATH_WEIGHT * Min(recent_deaths, DEATH_CAP)) \div DEATH_CAP

\* a history of MIN_HISTORY samples that all equal c
ConstantHistory(c) == [i \in 1..MIN_HISTORY |-> c]

\* constant low curvature values a run starts with, and the samples of a step
LowSigmas == {0, 6, 15}
SigmaSamples == {0, 6, 15, 100}

\* death ticks a run starts with: none, one about to leave the death window, one
\* outside the window that record_death still keeps
DeathStarts ==
    { << >>, << ThStartTick - DEATH_WINDOW + 2 >>, << ThStartTick - DEATH_WINDOW - 50 >> }

\* a tick that ends in the death branch: surplus_tension.record_death(total_ticks)
ThDeathTick ==
    /\ th_tick - ThStartTick < MaxThTicks
    /\ th_tick' = th_tick + 1
    /\ th_death_ticks' = RecordDeath(th_death_ticks, th_tick + 1)
    /\ th_last' = "death"
    /\ UNCHANGED << th_history, th_sigma_ema, th_cooldown, th_k, th_threshold, th_rupture >>
    /\ UNCHANGED notThVars

\* a tick that reaches step: the sample is appended, the EMA updated, the rupture
\* checked; tick calls on_rupture when the check fires
ThStepTick ==
    /\ th_tick - ThStartTick < MaxThTicks
    /\ \E sigma \in { s \in SigmaSamples :
                         s >= DeathShare(RecentDeaths(th_death_ticks, th_tick + 1)) } :
         LET now == th_tick + 1
             hist == Append(th_history, sigma)
             ema == SigmaEma(th_sigma_ema, sigma)
             deaths == RecentDeaths(th_death_ticks, now)
             checked == th_cooldown = 0
             computed == checked /\ Len(hist) >= MIN_HISTORY
             threshold == IF checked THEN ComputeDynamicThreshold(hist, deaths)
                          ELSE th_threshold
             cr == CheckRupture(th_cooldown, ema, threshold)
         IN /\ th_tick' = now
            /\ th_sigma_ema' = ema
            /\ th_k' = IF computed THEN KEffective(deaths) ELSE th_k
            /\ th_threshold' = threshold
            /\ th_rupture' = cr.rupture
            /\ th_cooldown' = cr.cooldown
            /\ th_history' = IF cr.rupture
                             THEN SubSeq(hist, Len(hist) - RUPTURE_KEEP + 1, Len(hist))
                             ELSE hist
            /\ th_last' = IF computed THEN "computed" ELSE "step"
    /\ UNCHANGED th_death_ticks
    /\ UNCHANGED notThVars

-----------------------------------------------------------------------------
(* KosmosActionPolicy: the trajectory and the REINFORCE update              *)
(* (action_policy.py:171-281).  The network is abstracted to the number of  *)
(* gradient-ascent steps applied to its weights; rewards, returns and the   *)
(* baseline are in hundredths.                                              *)

\* trajectory entries held at once in SpecPolicy
MaxTraj == 3
\* update calls explored per run of SpecPolicy
MaxPolUpdates == 2

POLICY_GAMMA_PCT == 99      \* gamma = 0.99
BASELINE_DECAY_PCT == 95    \* baseline_decay = 0.95
MIN_TRAJECTORY == 2         \* if len(traj) < 2

PolRewards == {-100, 50}

\* a trajectory entry as select_action appends it: no 'reward' key yet
TrajStep == [rewarded |-> FALSE, reward |-> 0]

\* record_reward: the reward goes to the most recent entry, if there is one
RecordReward(traj, reward) ==
    IF traj = << >> THEN traj
    ELSE [traj EXCEPT ![Len(traj)] = [rewarded |-> TRUE, reward |-> reward]]

\* [t for t in self._trajectory if 'reward' in t]
Rewarded(traj) == SelectSeq(traj, LAMBDA t : t.rewarded)

\* sum of the discounted returns G_t = r_t + gamma * G_(t+1) of the entries
RECURSIVE ReturnsFrom(_, _)
ReturnsFrom(traj, i) ==
    IF i > Len(traj) THEN << 0, 0 >>
    ELSE LET rest == ReturnsFrom(traj, i + 1)
             g == traj[i].reward + (Sign(rest[1]) * ((Abs(rest[1]) * POLICY_GAMMA_PCT) \div 100))
         IN << g, rest[2] + g >>

\* returns.mean(), rounded toward zero
MeanReturn(traj) ==
    LET total == ReturnsFrom(traj, 1)[2]
    IN Sign(total) * (Abs(total) \div Len(traj))

\* baseline_decay * baseline + (1 - baseline_decay) * mean_ret
NextBaseline(baseline, mean_ret) ==
    LET x == BASELINE_DECAY_PCT * baseline + (100 - BASELINE_DECAY_PCT) * mean_ret
    IN Sign(x) * (Abs(x) \div 100)

\* an update that runs the gradient step on any trajectory with a rewarded entry
PolicyUpdateEager(p) ==
    LET traj == Rewarded(p.traj)
    IN IF Len(traj) < 1 THEN [p EXCEPT !.traj = << >>, !.out = "empty"]
       ELSE [traj |-> << >>, steps |-> p.steps + 1,
             baseline |-> NextBaseline(p.baseline, MeanReturn(traj)),
             updates |-> p.updates + 1, out |-> "stats"]

\* KosmosActionPolicy.update on the policy p
PolicyUpdate(p) ==
    LET traj == Rewarded(p.traj)
    IN IF Len(traj) < MIN_TRAJECTORY THEN [p EXCEPT !.traj = << >>, !.out = "empty"]
       ELSE [traj |-> << >>, steps |-> p.steps + 1,
             baseline |-> NextBaseline(p.baseline, MeanReturn(traj)),
             updates |-> p.updates + 1, out |-> "stats"]

\* select_action: one more trajectory entry
PolSelect ==
    /\ Len(pol.traj) < MaxTraj
    /\ pol' = [pol EXCEPT !.traj = Append(@, TrajStep), !.out = "action"]
    /\ pol_last' = "select"
    /\ UNCHANGED notPolVars

PolRecordReward ==
    /\ pol.updates < MaxPolUpdates
    /\ \E reward \in PolRewards :
         pol' = [pol EXCEPT !.traj = RecordReward(@, reward), !.out = "none"]
    /\ pol_last' = "record_reward"
    /\ UNCHANGED notPolVars

PolUpdate ==
    /\ pol.updates < MaxPolUpdates
    /\ pol' = PolicyUpdate(pol)
    /\ pol_last' = "update"
    /\ UNCHANGED notPolVars

-----------------------------------------------------------------------------
(* Strategy selection with dwell gating, core.py:684-700, and the dwell    *)
(* reset of the rupture handling, core.py:717-734.                         *)

\* ticks explored per run of SpecDwell
MaxDwellTicks == 13

MIN_STRATEGY_DWELL == 10    \* self._min_strategy_dwell

\* what goal_module.select_goal proposes
Proposals == {"explore", "exploit", "rest"}

\* dwell counters a high-tension stretch starts with: the strategy was adopted
\* just now, or has been held for nine ticks
DwellStarts == {0, MIN_STRATEGY_DWELL - 1}

\* a dwell test that is met one tick early
DwellMetEarly(dwell) == dwell >= MIN_STRATEGY_DWELL - 1

\* if self._strategy_dwell_ticks >= self._min_strategy_dwell, core.py:692
DwellMet(dwell) == dwell >= MIN_STRATEGY_DWELL

\* step 2 of tick, core.py:689-700: the counter is incremented, then a proposal that
\* differs from the strategy is adopted (counter back to 0) or stored as pending
SelectStrategy(strategy, dwell, pending, proposed) ==
    IF proposed # strategy
    THEN IF DwellMet(dwell + 1)
         THEN [strategy |-> proposed, dwell |-> 0, pending |-> pending, changed |-> TRUE]
         ELSE [strategy |-> strategy, dwell |-> dwell + 1, pending |-> proposed,
               changed |-> FALSE]
    ELSE [strategy |-> strategy, dwell |-> dwell + 1, pending |-> "none", changed |-> FALSE]

\* a tick that reaches strategy selection and the rupture handling
DwellTick ==
    /\ dw_ticks < MaxDwellTicks
    /\ \E proposed \in Proposals, sg \in TenseSigma :
         LET s  == SelectStrategy(dw_strategy, dw_dwell, dw_pending, proposed)
             cr == CheckRupture(dw_cooldown, sg, SIGMA_CRIT)
         IN
         /\ dw_proposed' = proposed
         /\ dw_strategy' = s.strategy
         /\ dw_changed' = s.changed
         \* core.py:728-730: a rupture resets the counter and the pending strategy
         /\ dw_dwell' = IF cr.rupture THEN 0 ELSE s.dwell
         /\ dw_pending' = IF cr.rupture THEN "none" ELSE s.pending
         /\ dw_rupture' = cr.rupture
         /\ dw_cooldown' = cr.cooldown
         /\ dw_gap' = IF s.changed /\ dw_since # -1 THEN dw_since + 1 ELSE dw_gap
         /\ dw_since' = IF s.changed THEN 0
                        ELSE IF dw_since = -1 THEN -1 ELSE dw_since + 1
    /\ dw_ticks' = dw_ticks + 1
    /\ dw_last' = "run"
    /\ UNCHANGED notDwVars

\* the death branch, core.py:636-672: the tick returns before strategy selection
DwellDeath ==
    /\ dw_ticks < MaxDwellTicks
    /\ dw_ticks' = dw_ticks + 1
    /\ dw_last' = "death"
    /\ dw_rupture' = FALSE /\ dw_changed' = FALSE
    /\ UNCHANGED << dw_strategy, dw_dwell, dw_pending, dw_cooldown, dw_proposed,
                    dw_gap, dw_since >>
    /\ UNCHANGED notDwVars

-----------------------------------------------------------------------------
(* The rupture handling of tick, core.py:715-734, with the histories and   *)
(* the internal model of SurplusTensionModule (surplus_tension.py:239-303,  *)
(* 407-412).  Expectations and observations are in hundredths.             *)

\* ticks explored per run of SpecRupture
MaxRuptureTicks == 13
\* calm steps the module has taken when a run of SpecRupture starts
CalmSteps == 9

\* InternalModel.__init__ and reset: the neutral expectations
NEUTRAL_PSI == << 70, 70, 30, 20, 10, 30, 10, 20, 10 >>

\* build_phi: a world that matches the neutral expectations, and one that does not
CalmPhi == NEUTRAL_PSI
TensePhi == << 40, 40, 60, 50, 40, 60, 40, 50, 40 >>

\* what one tick observes: phi and the curvature compute_curvature returns
Observations == { [phi |-> CalmPhi, sigma |-> 0], [phi |-> TensePhi, sigma |-> 100] }

\* compute_surplus: the L2 norm of psi - phi
ComputeSurplus(phi, psi) == ISqrt(SeqSumSq([i \in 1..Len(psi) |-> psi[i] - phi[i]]))

\* InternalModel.update with alpha = 0.1 + 0.1 * min(S, 1.0), alpha per thousand
ModelUpdate(psi, phi, S) ==
    LET a == 100 + Min(S, 100)
    IN [i \in 1..Len(psi) |-> ((1000 - a) * psi[i] + a * phi[i]) \div 1000]

\* history[-n:]
LastN(history, n) == SubSeq(history, Max(1, Len(history) - n + 1), Len(history))

\* the append of step followed by the cut to HISTORY_SIZE
Remember(history, x) == LastN(Append(history, x), HISTORY_SIZE)

SurplusTension(psi, surplus, curv, ema, cooldown) ==
    [psi |-> psi, surplus |-> surplus, curv |-> curv, ema |-> ema, cooldown |-> cooldown]

\* an on_rupture that empties the histories
OnRuptureEmpties(m) == [m EXCEPT !.psi = NEUTRAL_PSI, !.surplus = << >>, !.curv = << >>]

\* SurplusTensionModule.on_rupture, surplus_tension.py:407-412
OnRupture(m) ==
    [m EXCEPT !.psi = NEUTRAL_PSI, !.surplus = LastN(@, RUPTURE_KEEP),
              !.curv = LastN(@, RUPTURE_KEEP)]

\* SurplusTensionModule.step, surplus_tension.py:254-287; the curvature is 0 until
\* the surplus history holds CURVATURE_MIN_SURPLUS values; the threshold is
\* SIGMA_CRIT while the curvature history is shorter than MIN_HISTORY
StepModule(m, obs) ==
    LET S       == ComputeSurplus(obs.phi, m.psi)
        surplus == Remember(m.surplus, S)
        sigma   == IF Len(surplus) < CURVATURE_MIN_SURPLUS THEN 0 ELSE obs.sigma
        ema     == SigmaEma(m.ema, sigma)
        cr      == CheckRupture(m.cooldown, ema, SIGMA_CRIT)
    IN [module |-> SurplusTension(ModelUpdate(m.psi, obs.phi, S), surplus,
                                  Remember(m.curv, sigma), ema, cr.cooldown),
        rupture |-> cr.rupture]

\* SurplusTensionModule.__init__
FreshModule == SurplusTension(NEUTRAL_PSI, << >>, << >>, 0, 0)

\* the module after n steps in a world that alternates between the two observations
RECURSIVE ModuleAfter(_)
ModuleAfter(n) ==
    IF n = 0 THEN FreshModule
    ELSE StepModule(ModuleAfter(n - 1),
                    [phi |-> IF n % 2 = 0 THEN CalmPhi ELSE TensePhi, sigma |-> 0]).module

\* plan queues a run starts with
RuptureQueues == { << >>, PlanOf(OkStep, 2) }

\* steps 4.5 and 5 of a tick, core.py:715-814: the module's step, the rupture
\* handling, then the decision, which takes a step from the queue or leaves it
RuptureTick ==
    /\ ru_ticks < MaxRuptureTicks
    /\ \E obs \in Observations, pop \in BOOLEAN :
         LET s     == StepModule(ru_module, obs)
             queue == IF s.rupture THEN << >> ELSE ru_plan
         IN
         /\ ru_stepped' = s.module
         /\ ru_module' = IF s.rupture THEN OnRupture(s.module) ELSE s.module
         /\ ru_calls' = IF s.rupture THEN 1 ELSE 0
         /\ ru_rupture' = s.rupture
         /\ ru_queue_at_select' = queue
         /\ ru_plan' = IF pop /\ queue # << >> THEN Tail(queue) ELSE queue
    /\ ru_ticks' = ru_ticks + 1
    /\ UNCHANGED notRuVars

-----------------------------------------------------------------------------
(* The decision-source selection of one tick, core.py:756-814, applied to  *)
(* the situations a tick can find: queue, pending slot, hazard, vitals.    *)

\* arbiter runs explored per run of SpecArbiter
MaxArbiterCalls == 1
\* the tick at which the arbiter runs in SpecArbiter
ArbiterNow == 30

\* plan queues a tick can find: none, or two steps of an adopted plan
ArbiterQueues == { << >>, PlanOf(OkStep, 2) }

\* ages of the result in the pending slot: fresh, stale
PendingAges == {1, STALENESS_MAX + 2}

\* the pending slot a tick can find: empty, or the plan of a call requested at req
\* whose thread wrote request tick and result
ArbiterPendings ==
    { [result |-> NoResult, tick |-> 0] }
    \cup UNION { { [result |-> r, tick |-> ArbiterNow - age] :
                      r \in PlanResults(ArbiterNow - age) } : age \in PendingAges }

\* one tick's decision: the rupture handling has emptied the queue on a rupture tick
ArbiterCall ==
    /\ ar_calls < MaxArbiterCalls
    /\ \E v \in Vitals, rupt \in BOOLEAN, student \in BOOLEAN, queue \in ArbiterQueues,
          pending \in ArbiterPendings, hazard \in BOOLEAN :
         /\ v.energy > 0
         /\ LET plan0 == IF rupt THEN << >> ELSE queue
                z     == Zone(v.energy, v.entropy)
            IN
            /\ ar_in' = [zone |-> z, rupture |-> rupt, plan |-> plan0,
                         replan_if |-> DefaultReplanIf, pending |-> pending.result,
                         pending_tick |-> pending.tick, hazard |-> hazard,
                         energy |-> v.energy]
            /\ ar_out' = Arbiter(z, rupt, student, plan0, DefaultReplanIf, pending.result,
                                 pending.tick, ArbiterNow, hazard, v.energy, UsePlanning)
    /\ ar_calls' = ar_calls + 1
    /\ UNCHANGED notArVars

-----------------------------------------------------------------------------
(* Initial states and specifications.                                      *)

\* the fields of SpecTrust after __init__
TrustIdle ==
    /\ tp = TRUST_INIT /\ learned_samples = 0 /\ learned_ema = 0 /\ heuristic_ema = 0
    /\ death_rate_ema = DEATH_RATE_INIT /\ baseline_death_rate = DEATH_RATE_INIT
    /\ baseline_frozen = FALSE
    /\ trust_ticks = 0 /\ trust_case = "none"

\* SurplusTensionModule.__init__
STIdle ==
    /\ st_cooldown = 0 /\ st_ruptures = 0 /\ st_sigma_ema = 0 /\ st_hist_len = 0
    /\ st_should_rupture = FALSE /\ st_steps = 0 /\ st_since_rupture = -1
    /\ st_gap = -1

\* the gateway fields as __init__ leaves them and as they are again whenever the
\* plan queue is used up, no result is pending and no reasoner call is in flight
GatewayIdle ==
    /\ alive = TRUE
    /\ st_rupture = FALSE /\ rupture_cooldown = 0
    /\ used_learned = FALSE
    /\ current_plan = << >> /\ plan_replan_if = {}
    /\ llm_pending = NoResult /\ llm_pending_tick = 0 /\ llm_busy = FALSE
    /\ use_llm \in BOOLEAN
    /\ llm_threads = {} /\ llm_exit = "none"
    /\ adopted_req = -1 /\ tick_raised = FALSE

\* KosmosAgent.__init__ followed by start(), which sets use_llm
FreshInit ==
    /\ total_ticks = 0
    /\ zone = "healthy" /\ prev_zone = "none"
    /\ decision_source = "teacher"
    /\ ticks_since_llm = 0
    /\ GatewayIdle

\* the agent WarmTick ticks after construction, in a stretch of high curvature that
\* has not ruptured yet: sigma_ema has been above HIGH_TENSION since tick 16, where
\* the firing check was true; the call started there raised
WarmInit ==
    /\ total_ticks = WarmTick
    /\ zone = "healthy" /\ prev_zone = "healthy"
    /\ decision_source = "teacher_heuristic"
    /\ ticks_since_llm = MIN_LLM_INTERVAL - 1
    /\ GatewayIdle

TickInit == FreshInit \/ WarmInit

\* no response is being parsed
ParseIdle ==
    /\ parse_content = Content("invalid", "none", << >>) /\ parse_ctx = "other"
    /\ parse_out = NotCalled /\ reason_out = NotCalled

\* before start(): no thread is running
LockIdle ==
    /\ lock_holder = "none" /\ bg_pc = "exited" /\ lock_tick_pc = "idle"
    /\ lock_llm_pc = "none" /\ running = FALSE /\ lock_ticks = 0

\* the vitals after __init__
VitalIdle == v_energy = VITAL_FULL /\ v_hydration = VITAL_FULL /\ v_alive = TRUE /\ v_ticks = 0

\* the demonstration buffer after __init__
DemoIdle ==
    /\ demo_buf = << >> /\ demo_added = 0 /\ d_ticks = 0 /\ d_since_death = 0
    /\ d_source = "teacher"

\* a GoalModuleV2 after __init__
TdIdle ==
    /\ td_learner = "goal_v2" /\ td = FreshLearner(ZeroTable)
    /\ td_last_op = "none" /\ td_prev_e = ZeroTable /\ td_last_err = 0
    /\ td_last_dq = 0 /\ td_ops = 0

\* no selection made yet
WarmIdle ==
    /\ wm_strategy = "explore" /\ wm_energy = 0 /\ wm_health = 0
    /\ wm_food = FALSE /\ wm_shelter = FALSE /\ wm_goal = "explore_space"
    /\ wm_calls = 0

\* a SurplusTensionModule after __init__
ThIdle ==
    /\ th_history = << >> /\ th_death_ticks = << >> /\ th_tick = 0
    /\ th_sigma_ema = 0 /\ th_cooldown = 0 /\ th_k = K_BASE
    /\ th_threshold = SIGMA_CRIT /\ th_rupture = FALSE /\ th_last = "none"

\* a KosmosActionPolicy after __init__
PolIdle ==
    /\ pol = [traj |-> << >>, steps |-> 0, baseline |-> 0, updates |-> 0, out |-> "none"]
    /\ pol_last = "none"

\* KosmosAgent.__init__: the strategy and its dwell gating
DwIdle ==
    /\ dw_strategy = "explore" /\ dw_dwell = 0 /\ dw_pending = "none"
    /\ dw_cooldown = 0 /\ dw_ticks = 0 /\ dw_last = "none"
    /\ dw_rupture = FALSE /\ dw_changed = FALSE /\ dw_proposed = "explore"
    /\ dw_gap = -1 /\ dw_since = -1

\* SurplusTensionModule.__init__ and an empty plan queue
RuIdle ==
    /\ ru_module = FreshModule /\ ru_stepped = FreshModule
    /\ ru_plan = << >> /\ ru_queue_at_select = << >>
    /\ ru_calls = 0 /\ ru_rupture = FALSE /\ ru_ticks = 0

\* no decision has been taken
ArIdle ==
    /\ ar_calls = 0
    /\ ar_in = [zone |-> "healthy", rupture |-> FALSE, plan |-> << >>,
                replan_if |-> {}, pending |-> NoResult, pending_tick |-> 0,
                hazard |-> FALSE, energy |-> 100]
    /\ ar_out = [source |-> "teacher"]

\* the agent at rest, for the specifications of its parts
AgentIdle == FreshInit /\ use_llm = FALSE

Init == TickInit /\ TrustIdle /\ STIdle /\ ParseIdle /\ LockIdle /\ VitalIdle /\ DemoIdle /\ TdIdle /\ WarmIdle /\ ThIdle /\ PolIdle /\ DwIdle /\ RuIdle /\ ArIdle

Next == TickDeath \/ TickRun \/ LlmWriteTick \/ LlmWriteResult \/ LlmFinish \/ LlmRaise

Spec == Init /\ [][Next]_vars

\* the interpreter schedules a started thread, and the HTTP call of the reasoner has
\* a timeout, so each statement of _llm_reason is eventually executed
SpecFair == Spec /\ WF_vars(LlmWriteTick \/ LlmRaise) /\ WF_vars(LlmWriteResult)
                 /\ WF_vars(LlmFinish)

TrustInit ==
    /\ \E s \in TrustStarts :
         /\ tp = s.tp /\ learned_samples = s.samples
         /\ learned_ema = s.l_ema /\ heuristic_ema = s.h_ema
    /\ death_rate_ema = DEATH_RATE_INIT /\ baseline_death_rate = DEATH_RATE_INIT
    /\ baseline_frozen = FALSE
    /\ trust_ticks = 0 /\ trust_case = "none"

InitTrust == AgentIdle /\ TrustInit /\ STIdle /\ ParseIdle /\ LockIdle /\ VitalIdle /\ DemoIdle /\ TdIdle /\ WarmIdle /\ ThIdle /\ PolIdle /\ DwIdle /\ RuIdle /\ ArIdle

NextTrust == TrustTick \/ TrustDeath

SpecTrust == InitTrust /\ [][NextTrust]_vars

InitST == AgentIdle /\ TrustIdle /\ STIdle /\ ParseIdle /\ LockIdle /\ VitalIdle /\ DemoIdle /\ TdIdle /\ WarmIdle /\ ThIdle /\ PolIdle /\ DwIdle /\ RuIdle /\ ArIdle

NextST == StStep

SpecST == InitST /\ [][NextST]_vars

ParseInit ==
    /\ parse_content \in Contents /\ parse_ctx \in FallbackContexts
    /\ parse_out = NotCalled /\ reason_out = NotCalled

InitParse == AgentIdle /\ TrustIdle /\ STIdle /\ ParseInit /\ LockIdle /\ VitalIdle /\ DemoIdle /\ TdIdle /\ WarmIdle /\ ThIdle /\ PolIdle /\ DwIdle /\ RuIdle /\ ArIdle

NextParse == ParsePlanCall \/ ReasonPlanCall

SpecParse == InitParse /\ [][NextParse]_vars

\* after start(): the background thread is at the loop test
LockInit ==
    /\ lock_holder = "none" /\ bg_pc = "test" /\ lock_tick_pc = "idle"
    /\ lock_llm_pc = "none" /\ running = TRUE /\ lock_ticks = 0

InitLock == AgentIdle /\ TrustIdle /\ STIdle /\ ParseIdle /\ LockInit /\ VitalIdle /\ DemoIdle /\ TdIdle /\ WarmIdle /\ ThIdle /\ PolIdle /\ DwIdle /\ RuIdle /\ ArIdle

NextLock ==
    \/ BgTest \/ BgAcquire \/ BgStep \/ BgSleep
    \/ LockTickDeath \/ LockTickBegin \/ LockTickAcquire \/ LockTickStep1
    \/ LockTickDecide \/ LockTickStep2
    \/ LockLlmReturn \/ LockStop

SpecLock == InitLock /\ [][NextLock]_vars

VitalInit ==
    /\ \E v \in VitalStarts : v_energy = v.energy /\ v_hydration = v.hydration
    /\ v_alive = TRUE /\ v_ticks = 0

InitVitals == AgentIdle /\ TrustIdle /\ STIdle /\ ParseIdle /\ LockIdle /\ VitalInit /\ DemoIdle /\ TdIdle /\ WarmIdle /\ ThIdle /\ PolIdle /\ DwIdle /\ RuIdle /\ ArIdle

NextVitals == VitalsTick

SpecVitals == InitVitals /\ [][NextVitals]_vars

\* a run resumed by load_state at tick WarmDemoTick: total_ticks is restored, the
\* demonstration buffer and _ticks_since_death are not (persistence.py:241-272)
DemoInit ==
    /\ demo_buf = << >> /\ demo_added = 0 /\ d_ticks = WarmDemoTick
    /\ d_since_death = 0 /\ d_source = "teacher"

InitDemo == AgentIdle /\ TrustIdle /\ STIdle /\ ParseIdle /\ LockIdle /\ VitalIdle /\ DemoInit /\ TdIdle /\ WarmIdle /\ ThIdle /\ PolIdle /\ DwIdle /\ RuIdle /\ ArIdle

NextDemo == DemoTick \/ DemoDeath

SpecDemo == InitDemo /\ [][NextDemo]_vars

\* the surplus-tension module after HISTORY_SIZE - 1 steps of zero curvature
STNearFull ==
    /\ st_cooldown = 0 /\ st_ruptures = 0 /\ st_sigma_ema = 0
    /\ st_hist_len = HISTORY_SIZE - 1 /\ st_should_rupture = FALSE
    /\ st_steps = HISTORY_SIZE - 1 /\ st_since_rupture = -1 /\ st_gap = -1

InitBuffers == AgentIdle /\ TrustIdle /\ STNearFull /\ ParseIdle /\ LockIdle /\ VitalIdle /\ DemoInit /\ TdIdle /\ WarmIdle /\ ThIdle /\ PolIdle /\ DwIdle /\ RuIdle /\ ArIdle

NextBuffers ==
    \/ d_ticks - WarmDemoTick < MaxBufferTicks /\ (DemoTick \/ DemoDeath)
    \/ StStep

SpecBuffers == InitBuffers /\ [][NextBuffers]_vars

\* a learner as constructed or loaded, or one on which an old trace has faded to
\* just above 1e-6 while another pair was being selected
TdInit ==
    /\ td_learner \in Learners
    /\ \/ \E q \in QStarts : td = FreshLearner(q)
       \/ \E again \in BOOLEAN : td = FadedLearner(td_learner, again)
    /\ td_last_op = "none" /\ td_prev_e = ZeroTable /\ td_last_err = 0
    /\ td_last_dq = 0 /\ td_ops = 0

InitTD == AgentIdle /\ TrustIdle /\ STIdle /\ ParseIdle /\ LockIdle /\ VitalIdle /\ DemoIdle /\ TdInit /\ WarmIdle /\ ThIdle /\ PolIdle /\ DwIdle /\ RuIdle /\ ArIdle

NextTD == TdSelect \/ TdUpdate \/ TdReset \/ TdDeathTick

SpecTD == InitTD /\ [][NextTD]_vars

InitWarm == AgentIdle /\ TrustIdle /\ STIdle /\ ParseIdle /\ LockIdle /\ VitalIdle /\ DemoIdle /\ TdIdle /\ WarmIdle /\ ThIdle /\ PolIdle /\ DwIdle /\ RuIdle /\ ArIdle

NextWarm == WarmSelect

SpecWarm == InitWarm /\ [][NextWarm]_vars

\* a module whose last MIN_HISTORY curvature samples were one constant low value
ThInit ==
    /\ \E c \in LowSigmas : th_history = ConstantHistory(c) /\ th_sigma_ema = c
    /\ th_death_ticks \in DeathStarts
    /\ th_tick = ThStartTick /\ th_cooldown = 0
    /\ th_k = K_BASE /\ th_threshold = SIGMA_CRIT /\ th_rupture = FALSE
    /\ th_last = "none"

InitThreshold == AgentIdle /\ TrustIdle /\ STIdle /\ ParseIdle /\ LockIdle /\ VitalIdle /\ DemoIdle /\ TdIdle /\ WarmIdle /\ ThInit /\ PolIdle /\ DwIdle /\ RuIdle /\ ArIdle

NextThreshold == ThDeathTick \/ ThStepTick

SpecThreshold == InitThreshold /\ [][NextThreshold]_vars

InitPolicy == AgentIdle /\ TrustIdle /\ STIdle /\ ParseIdle /\ LockIdle /\ VitalIdle /\ DemoIdle /\ TdIdle /\ WarmIdle /\ ThIdle /\ PolIdle /\ DwIdle /\ RuIdle /\ ArIdle

NextPolicy == PolSelect \/ PolRecordReward \/ PolUpdate

SpecPolicy == InitPolicy /\ [][NextPolicy]_vars

\* the agent at the start of a high-tension stretch
DwellInit ==
    /\ dw_strategy = "explore" /\ dw_dwell \in DwellStarts /\ dw_pending = "none"
    /\ dw_cooldown = 0 /\ dw_ticks = 0 /\ dw_last = "none"
    /\ dw_rupture = FALSE /\ dw_changed = FALSE /\ dw_proposed = "explore"
    /\ dw_gap = -1 /\ dw_since = -1

InitDwell == AgentIdle /\ TrustIdle /\ STIdle /\ ParseIdle /\ LockIdle /\ VitalIdle /\ DemoIdle /\ TdIdle /\ WarmIdle /\ ThIdle /\ PolIdle /\ DwellInit /\ RuIdle /\ ArIdle

NextDwell == DwellTick \/ DwellDeath

SpecDwell == InitDwell /\ [][NextDwell]_vars

\* the agent after CalmSteps ticks without curvature, with or without a plan
RuptureInit ==
    /\ ru_module = ModuleAfter(CalmSteps) /\ ru_stepped = ModuleAfter(CalmSteps)
    /\ ru_plan \in RuptureQueues /\ ru_queue_at_select = ru_plan
    /\ ru_calls = 0 /\ ru_rupture = FALSE /\ ru_ticks = 0

InitRupture == AgentIdle /\ TrustIdle /\ STIdle /\ ParseIdle /\ LockIdle /\ VitalIdle /\ DemoIdle /\ TdIdle /\ WarmIdle /\ ThIdle /\ PolIdle /\ DwIdle /\ RuptureInit /\ ArIdle

NextRupture == RuptureTick

SpecRupture == InitRupture /\ [][NextRupture]_vars

InitArbiter == AgentIdle /\ TrustIdle /\ STIdle /\ ParseIdle /\ LockIdle /\ VitalIdle /\ DemoIdle /\ TdIdle /\ WarmIdle /\ ThIdle /\ PolIdle /\ DwIdle /\ RuIdle /\ ArIdle

NextArbiter == ArbiterCall

SpecArbiter == InitArbiter /\ [][NextArbiter]_vars

-----------------------------------------------------------------------------
(* Properties.                                                             *)

\* a thread started by the latest tick is still running
FiredThisTick == \E t \in llm_threads : t.snap = total_ticks

\* the step is a tick that reached the arbiter
ArbiterTick == total_ticks' = total_ticks + 1 /\ alive'

\* C1: a tick in the crisis zone on which no rupture is reported takes its decision
\* from the survival reflex: the source is 'survival_reflex', the student is not
\* used and the plan queue is empty afterwards, whatever the teacher probability,
\* the plan queue and the pending slot were.
C1_CrisisReflex ==
    (zone = "crisis" /\ ~st_rupture)
        => (decision_source = "survival_reflex" /\ ~used_learned /\ current_plan = << >>)

\* a reflex tick that found a reasoner result in the pending slot and left it there
C1_Witness ==
    /\ alive /\ zone = "crisis" /\ ~st_rupture
    /\ decision_source = "survival_reflex" /\ current_plan = << >>
    /\ llm_pending # NoResult /\ FiredThisTick

\* C2: a tick in the crisis zone on which a rupture is reported never takes the
\* survival reflex: its decision comes from the student or from the teacher path.
C2_RuptureBypassesReflex ==
    (zone = "crisis" /\ st_rupture)
        => decision_source \in ({"learned"} \cup TeacherSources)

\* a rupture tick in the crisis zone decided by the teacher's heuristic
C2_Witness ==
    alive /\ zone = "crisis" /\ st_rupture /\ decision_source = "teacher_heuristic"

\* C3: the teacher probability stays within [POLICY_TEACHER_MIN, 1] after any
\* sequence of warm-up, competent, survival-incompetent, hold and death ticks.
C3_TrustInRange == POLICY_TEACHER_MIN <= tp /\ tp <= TRUST_INIT

\* a competent tick whose decay was stopped by the floor
C3_Witness == trust_case = "competent" /\ tp = POLICY_TEACHER_MIN /\ trust_ticks > 0

\* C4 (as stated): two step calls that return should_rupture = true are separated
\* by more than RUPTURE_COOLDOWN step calls that return false, and the cooldown
\* counter is never negative.
C4_MoreThanCooldownApart ==
    st_cooldown >= 0 /\ (st_gap # -1 => st_gap > RUPTURE_COOLDOWN)

\* C4 (amended): two step calls that return should_rupture = true are separated by
\* at least RUPTURE_COOLDOWN step calls that return false, and the cooldown counter
\* is never negative.
C4_AtLeastCooldownApart ==
    st_cooldown >= 0 /\ (st_gap # -1 => st_gap >= RUPTURE_COOLDOWN)

\* a second rupture right after the RUPTURE_COOLDOWN false calls of the cooldown
C4_Witness == st_should_rupture /\ st_ruptures >= 2 /\ st_gap = RUPTURE_COOLDOWN

\* C5: a reasoner result requested more than STALENESS_MAX ticks before the current
\* tick is never adopted as the decision.
C5_StaleNeverAdopted ==
    adopted_req # -1 => total_ticks - adopted_req <= STALENESS_MAX

\* C6: at most one reasoner call is in flight at any time, and the busy flag is set
\* for as long as it is: a tick starts a thread only when none is running.
C6_OneInFlight == Cardinality(llm_threads) <= 1 /\ (llm_threads # {} => llm_busy)

\* a tick whose firing check was true with a nearly empty queue, while a thread
\* started by an earlier tick was still running: no second thread was started
C6_Witness ==
    /\ alive /\ use_llm /\ ticks_since_llm = 0 /\ NeedNewPlan(current_plan)
    /\ \E t \in llm_threads : t.snap < total_ticks

\* C7: a tick issues a reasoner request only if, after its decision, the plan queue
\* holds at most one step, the reasoner is enabled and the firing check was true.
C7_FiresOnlyNearEmpty ==
    FiredThisTick => (Len(current_plan) <= NEED_PLAN_MAX /\ use_llm /\ ticks_since_llm = 0)

\* a request issued while one step is still queued
C7_Witness == FiredThisTick /\ Len(current_plan) = NEED_PLAN_MAX

\* C8 (as stated): a teacher-path tick that takes its decision from the non-empty
\* plan queue while a reasoner result is pending discards that result in the same tick.
C8_QueueStepDiscardsPending ==
    [][(/\ ArbiterTick /\ decision_source' = "teacher_plan" /\ adopted_req' = -1
        /\ llm_pending # NoResult)
          => llm_pending' = NoResult]_vars

\* C8 (amended): a teacher-path tick that takes its decision from the non-empty plan
\* queue while a reasoner result is pending leaves that result in the slot unchanged.
C8_QueueStepKeepsPending ==
    [][(/\ ArbiterTick /\ decision_source' = "teacher_plan" /\ adopted_req' = -1
        /\ llm_pending # NoResult)
          => llm_pending' = llm_pending]_vars

\* a tick decided from the plan queue, with a result of an earlier request still in
\* the slot afterwards
C8_Witness ==
    /\ alive /\ decision_source = "teacher_plan" /\ adopted_req = -1
    /\ llm_pending # NoResult
    /\ \E t \in llm_threads : t.snap = total_ticks /\ t.pc = "calling"

\* C9: a tick that adopts a result the reasoner placed in the pending slot completes
\* without raising, whatever the shape of the result's tool and args.
C9_AdoptionNeverRaises == adopted_req # -1 => ~tick_raised

\* C10: every started reasoner call eventually leaves the in-flight state, whether
\* it returns or raises: no thread is left running and the busy flag is cleared.
C10_CallLeavesFlight ==
    (llm_busy \/ llm_threads # {}) ~> (~llm_busy /\ llm_threads = {})

\* after a call that raised, a later tick has issued a new request
C10_Witness ==
    /\ llm_exit = "raised" /\ ~tick_raised
    /\ \E t \in llm_threads : t.pc = "calling"

\* C11: whatever the response content, _parse_plan_response returns (it does not
\* raise) a plan of 1 to MAX_PLAN_STEPS steps whose steps all have the keys 'tool',
\* 'args' and 'thought'; when the content is not a JSON object with a plan list
\* holding a valid entry among its first five, the plan is the fixed fallback plan
C11_ParseAlwaysReturnsPlan ==
    parse_out.called =>
        /\ ~parse_out.raised
        /\ Len(parse_out.plan) \in 1..MAX_PLAN_STEPS
        /\ \A i \in 1..Len(parse_out.plan) : parse_out.plan[i] = StepKeys
        /\ ((parse_content.json # "object" \/ parse_content.plan_kind # "list"
             \/ ValidPlan(parse_content.plan) = << >>)
            => parse_out.fallback /\ parse_out.plan = FallbackPlan(parse_ctx))

\* C12: the background loop and the tick are never both inside emile.step; a thread
\* inside emile.step holds the lock; the lock is held only at the three emile.step
\* calls, so never by the reasoner thread nor by the tick while it starts one; and
\* the only blocking call the tick can be stopped at is the acquisition of the lock
C12_StepsUnderLock ==
    /\ ~(BgStepping /\ TickStepping)
    /\ (BgStepping => lock_holder = "bg")
    /\ (TickStepping => lock_holder = "tick")
    /\ (lock_holder = "bg" => BgStepping)
    /\ (lock_holder = "tick" => TickStepping)
    /\ lock_holder \in {"none", "bg", "tick"}
    /\ ((lock_tick_pc # "idle" /\ ~ENABLED (LockTickAcquire \/ LockTickStep1
                                            \/ LockTickDecide \/ LockTickStep2))
        => (TickAtAcquire /\ lock_holder = "bg"))

\* the tick waits at its second emile.step for the background loop, which is inside
\* its own, while a reasoner call started by this tick is in flight
C12_Witness ==
    /\ lock_tick_pc = "acquire2" /\ BgStepping /\ lock_holder = "bg"
    /\ lock_llm_pc = "calling" /\ lock_ticks > 0

\* C13: after every tick, whatever the weather and the tool outcomes, energy and
\* hydration are both within [0, 1.2]
C13_VitalsInRange ==
    /\ 0 <= v_energy /\ v_energy <= 12000
    /\ 0 <= v_hydration /\ v_hydration <= 12000

\* the add() calls whose demonstrations the buffer holds
DemoSeqs(buf) == { buf[i].seq : i \in 1..Len(buf) }

\* C14: a tick whose decision source is 'learned' adds no demonstration: across it
\* the number of add() calls and the set of stored demonstrations are unchanged
C14_LearnedNotRecorded ==
    [][(d_ticks' = d_ticks + 1 /\ d_since_death' # 0 /\ d_source' = "learned")
       => (demo_added' = demo_added /\ DemoSeqs(demo_buf') = DemoSeqs(demo_buf))]_vars

\* a student tick with a recordable action, taken while the buffer holds teacher
\* demonstrations
C14_Witness ==
    /\ d_source = "learned" /\ d_since_death > 0 /\ Len(demo_buf) > 0
    /\ demo_added = Len(demo_buf)

\* C15: the demonstration buffer never holds more than max_size entries, and what it
\* holds are the latest add() calls in the order they were made (a full buffer lost
\* exactly its oldest entry to each new one); the surplus and curvature histories
\* never hold more than HISTORY_SIZE entries after a step
C15_BuffersWithinCapacity ==
    /\ Len(demo_buf) <= DemoCapacity
    /\ Len(demo_buf) = Min(DemoCapacity, demo_added)
    /\ \A i \in 1..Len(demo_buf) : demo_buf[i].seq = demo_added - Len(demo_buf) + i
    /\ st_hist_len <= HISTORY_SIZE

\* more demonstrations were added than the buffer holds, and a step was made on
\* full histories
C15_Witness ==
    /\ Len(demo_buf) = DemoCapacity /\ demo_added > DemoCapacity
    /\ st_hist_len = HISTORY_SIZE /\ st_steps > HISTORY_SIZE

\* C16: a demonstration whose survival credit on_death has capped never has a
\* survival credit above DEATH_CREDIT_CAP afterwards
C16_CappedCreditStaysCapped ==
    \A i \in 1..Len(demo_buf) :
        demo_buf[i].capped => demo_buf[i].survival_ticks <= DEATH_CREDIT_CAP

\* C17: a demonstration recorded with the source 'teacher_llm' or 'teacher_plan'
\* has the sampling weight 1.2 * (1 + 2 * max(0, reward) + 0.01 * survival_ticks)
C17_ReasonerBonusApplied ==
    \A i \in 1..Len(demo_buf) :
        demo_buf[i].source \in {"teacher_llm", "teacher_plan"}
        => SampleWeight(demo_buf[i]) = (12 * BaseWeight(demo_buf[i])) \div 10


\* C18: in both TD learners, an update that follows a selection changes
\* Q(current state, chosen action) by an amount that has the sign of the TD error
\* (positive, negative, or no change when the error is zero).
C18_QMovesWithTdError ==
    td_last_op = "update" => Sign(td_last_dq) = Sign(td_last_err)

\* a GoalMapper update after a selection with a negative TD error has lowered Q
C18_Witness ==
    /\ td_learner = "goal_mapper" /\ td_last_op = "update"
    /\ td_last_err < 0 /\ td_last_dq < 0

\* C19: in both TD learners, an update call that follows another update call with
\* no select call in between leaves no eligibility entry larger than it was after
\* the earlier update.
C19_TracesNonIncreasing ==
    td_last_op = "update_again" => \A p \in Pairs : td.e[p] <= td_prev_e[p]

\* C20: in both TD learners, an eligibility entry that an update call takes from
\* 1e-6 or above to below 1e-6 is no longer in the trace table when that call
\* ends.
C20_FadedTracesRemoved ==
    td_last_op \in {"update", "update_again"} =>
        \A p \in Pairs :
            (td_prev_e[p] >= TRACE_MIN /\ td.e[p] < TRACE_MIN) => p[1] \notin td.rows

\* C21: a tick that detects the agent's death leaves the eligibility traces of the
\* learner (GoalModuleV2 as well as GoalMapper) empty and its Q table as it was.
C21_DeathClearsTraces ==
    [][td_last_op' = "death"
       => (td'.rows = {} /\ td'.e = ZeroTable /\ td'.Q = td.Q)]_vars

\* C22: in both TD learners, an update called while no pair is current (before any
\* select, or directly after reset_episode) returns empty diagnostics and leaves the
\* Q table, the eligibility traces, the reward history and the update counter as
\* they were.
C22_UpdateBeforeSelectIsNoOp ==
    [][(td_last_op' \in {"update", "update_again", "update_skipped"} /\ td.cur = NoCur)
       => /\ td'.out = "empty"
          /\ td'.Q = td.Q /\ td'.e = td.e /\ td'.rows = td.rows
          /\ td'.rewards = td.rewards /\ td'.updates = td.updates]_vars

\* an update has been skipped on a learner that had learned before its
\* reset_episode
C22_Witness ==
    /\ td_last_op = "update_skipped" /\ td.out = "empty"
    /\ td.updates > 0 /\ td.cur = NoCur

\* C23: before any update, the greedy goal of the warm-started GoalMapper is the
\* goal that _hardcoded_goal returns for the same strategy, energy and health,
\* whatever the food and shelter flags.
C23_WarmStartMatchesHardcoded ==
    wm_calls > 0 =>
        wm_goal = HardcodedGoal(wm_strategy, wm_energy, GridSteps, wm_health, GridSteps)

ConstantBefore(history) ==
    /\ Len(history) > MIN_HISTORY
    /\ \A i \in (Len(history) - MIN_HISTORY + 1)..(Len(history) - 1) :
          history[i] = history[Len(history) - 1]

\* C25: when the curvature history was one constant low value and the only death
\* in the window was recorded on the tick before, the threshold the next step
\* computes is strictly below the one it would compute from the same history with
\* no death.
C25_DeathLowersThreshold ==
    ( /\ th_last = "computed" /\ ~th_rupture
      /\ ConstantBefore(th_history)
      /\ RecentDeaths(th_death_ticks, th_tick) = 1
      /\ th_death_ticks[Len(th_death_ticks)] = th_tick - 1 )
    => th_threshold < ComputeDynamicThreshold(th_history, 0)

\* the rewarded entries of the trajectory number fewer than two
FewRewarded(p) == Len(Rewarded(p.traj)) < MIN_TRAJECTORY

\* C26: KosmosActionPolicy.update always leaves the trajectory empty, and when
\* fewer than two trajectory entries carry a reward it returns empty diagnostics
\* and leaves the network weights, the baseline and the update counter unchanged.
C26_ShortTrajectoryDiscarded ==
    [][pol_last' = "update"
       => /\ pol'.traj = << >>
          /\ FewRewarded(pol) =>
                /\ pol'.out = "empty" /\ pol'.steps = pol.steps
                /\ pol'.baseline = pol.baseline /\ pol'.updates = pol.updates]_vars

\* an update has discarded a trajectory on a policy that had been updated before
C26_Witness ==
    /\ pol_last = "update" /\ pol.out = "empty" /\ pol.traj = << >>
    /\ pol.updates > 0 /\ pol.baseline # 0

\* the queue after the rupture handling and the interrupt check of the tick just
\* taken, for a hazard flag and vitals that give the zone the tick classified
CheckedQueues ==
    { IF CheckPlanInterrupt(IF st_rupture' THEN << >> ELSE current_plan, zone', hz,
                            plan_replan_if, v.energy)
      THEN << >>
      ELSE (IF st_rupture' THEN << >> ELSE current_plan) :
        hz \in BOOLEAN,
        v \in { w \in Vitals \cup RespawnVitals : Zone(w.energy, w.entropy) = zone' } }

\* the teacher path's order of sources for a tick whose queue is `queue` after the
\* interrupt check
TeacherOrder(queue) ==
    IF queue # << >>
    THEN /\ decision_source' = "teacher_plan" /\ adopted_req' = -1
         /\ current_plan' = Tail(queue) /\ llm_pending' = llm_pending
    ELSE IF llm_pending # NoResult
    THEN /\ llm_pending' = NoResult
         /\ IF total_ticks' - llm_pending_tick <= STALENESS_MAX
            THEN /\ adopted_req' = llm_pending.req
                 /\ IF llm_pending.kind = "plan"
                    THEN /\ decision_source' = "teacher_plan"
                         /\ current_plan' = Tail(llm_pending.plan)
                         /\ plan_replan_if' = llm_pending.replan_if
                    ELSE /\ decision_source' = "teacher_llm"
                         /\ current_plan' = << >>
            ELSE /\ decision_source' = "teacher_heuristic" /\ adopted_req' = -1
                 /\ current_plan' = << >>
    ELSE /\ decision_source' = "teacher_heuristic" /\ adopted_req' = -1
         /\ current_plan' = << >> /\ llm_pending' = NoResult

TrustUpdateTick == trust_ticks' = trust_ticks + 1 /\ trust_case' # "death"

\* C29: the baseline death rate is frozen exactly once.  The first tick whose update
\* sees a learned-sample count of at least POLICY_TEACHER_WARMUP sets the frozen flag
\* and no earlier tick does; from that tick on the baseline death rate keeps its
\* value through every later tick and death, and the flag never goes back, so the
\* freeze does not happen a second time.
C29_BaselineFrozenOnce ==
    [][/\ TrustUpdateTick => (baseline_frozen' <=> learned_samples' >= POLICY_TEACHER_WARMUP)
       /\ learned_samples' >= POLICY_TEACHER_WARMUP
             => baseline_death_rate' = baseline_death_rate
       /\ baseline_frozen
             => /\ baseline_frozen' /\ baseline_death_rate' = baseline_death_rate
                /\ learned_samples' >= POLICY_TEACHER_WARMUP]_vars

\* warm-up lowered the baseline, the baseline was frozen, and a later tick ran its
\* update with the death-rate EMA below the frozen baseline
C29_Witness ==
    /\ baseline_frozen /\ baseline_death_rate < DEATH_RATE_INIT
    /\ death_rate_ema < baseline_death_rate
    /\ trust_case \in {"hold", "competent", "recover"}

\* C30: after warm-up the teacher probability gets smaller from one tick to the next
\* only if the learned-sample count is at least POLICY_TEACHER_WARMUP + MIN_EVAL_EXTRA
\* and both competence tests hold on that tick: student reward EMA >= 0.9 x teacher
\* reward EMA, and death-rate EMA <= 1.2 x the frozen baseline.
C30_DecayOnlyWhenCompetent ==
    [][(learned_samples' >= POLICY_TEACHER_WARMUP /\ tp' < tp)
          => /\ learned_samples' >= POLICY_TEACHER_WARMUP + MIN_EVAL_EXTRA
             /\ RewardCompetent(learned_ema', heuristic_ema')
             /\ SurvivalCompetent(death_rate_ema', baseline_death_rate')]_vars

\* a tick after warm-up has lowered a teacher probability that was above the floor,
\* after a death had moved the death-rate EMA
C30_Witness ==
    /\ trust_case = "competent" /\ baseline_frozen
    /\ POLICY_TEACHER_MIN < tp /\ tp < RECOVERY_CAP - 100
    /\ death_rate_ema # DEATH_RATE_INIT

\* C31: after warm-up, with at least POLICY_TEACHER_WARMUP + MIN_EVAL_EXTRA learned
\* samples, a tick changes the teacher probability only when both competence tests
\* hold (decay) or when the reward test holds and the survival test fails (recovery);
\* in particular a tick on which the student's reward EMA is below 0.9 x the
\* teacher's leaves the teacher probability unchanged.
C31_TrustHeldUnlessNamedCase ==
    [][(/\ TrustUpdateTick
        /\ learned_samples' >= POLICY_TEACHER_WARMUP + MIN_EVAL_EXTRA
        /\ tp' # tp)
          => RewardCompetent(learned_ema', heuristic_ema')]_vars

\* C32: after a rupture on tick t the dwell gating does not block the next change:
\* when the strategy layer proposes, on tick t+1, a strategy different from the
\* current one, the agent adopts it on tick t+1.
C32_RuptureUnblocksStrategy ==
    [][(dw_rupture /\ dw_last' = "run" /\ dw_proposed' # dw_strategy)
          => dw_strategy' = dw_proposed']_vars

C33_RuptureFiresReasoner ==
    [][(ArbiterTick /\ st_rupture' /\ use_llm /\ ~llm_busy)
          => \E t \in llm_threads' : t.snap = total_ticks']_vars

\* the step is a tick that started a reasoner thread
RequestStarted == ArbiterTick /\ \E t \in llm_threads' : t.snap = total_ticks'

\* C35: a reasoner request whose firing reasons include neither a zone transition
\* nor near-death is never fired fewer than MIN_LLM_INTERVAL ticks after the
\* previous firing, rupture ticks included.  The previous firing is the request of
\* the thread that returned last (its snapshot is in _llm_pending_tick); the zone is
\* the one of the previous tick and is not 'crisis', so no critical reason applies.
C35_CooldownBetweenRequests ==
    [][(/\ RequestStarted
        /\ llm_exit = "returned"
        /\ zone' = prev_zone /\ zone' # "crisis")
          => total_ticks' - llm_pending_tick >= MIN_LLM_INTERVAL]_vars

\* C38: the ticks-since-last-reasoner-call counter is set to 0 only by ticks that
\* start a reasoner request: a tick whose firing check succeeds while the request
\* is suppressed (a call in flight, more than one step queued, or the reasoner
\* disabled) leaves the counter counting.
C38_CounterResetOnlyOnRequest ==
    [][(ArbiterTick /\ ticks_since_llm' = 0) => RequestStarted]_vars

\* C34: on a rupture tick the plan queue is empty when the decision source is
\* selected and on_rupture is called exactly once: afterwards the expectation
\* vector is the neutral prior, and the surplus history and the curvature history
\* each hold the last min(10, previous length) entries of what they held before
\* the call, in the same order.
C34_RuptureResetsModel ==
    ru_rupture =>
        /\ ru_queue_at_select = << >> /\ ru_calls = 1
        /\ ru_module.psi = NEUTRAL_PSI
        /\ \A h \in {"surplus", "curv"} :
             LET before == ru_stepped[h]
                 after  == ru_module[h]
                 n      == Min(RUPTURE_KEEP, Len(before))
             IN /\ Len(after) = n
                /\ \A i \in 1..n : after[i] = before[Len(before) - n + i]

\* a rupture found a plan in the queue, an internal model that had moved away from
\* the neutral prior and histories longer than ten entries with unequal values
C34_Witness ==
    /\ ru_rupture /\ ru_plan = << >>
    /\ ru_stepped.psi # NEUTRAL_PSI
    /\ Len(ru_stepped.surplus) > RUPTURE_KEEP /\ Len(ru_module.surplus) = RUPTURE_KEEP
    /\ ru_module.surplus[1] # ru_module.surplus[RUPTURE_KEEP]
    /\ ru_module.surplus[1] # ru_stepped.surplus[1]

\* C37: whenever a tick adopts a pending reasoner result as fresh, the request tick
\* it used in the staleness test is the tick at which that very result was
\* requested, under every interleaving of a finishing thread's two writes with
\* the tick: an older result in the slot is never paired with the request tick of
\* a newer call.
C37_RequestTickMatchesResult ==
    [][(ArbiterTick /\ adopted_req' # -1) => llm_pending_tick = adopted_req']_vars

\* a plan-interrupt condition of the claim holds on the tick: a hazard within two
\* cells, or a listed replan_if condition that is true
InterruptConditionHolds ==
    \/ ar_in.hazard
    \/ ("energy_critical" \in ar_in.replan_if /\ ar_in.energy < ENERGY_CRITICAL)

\* C39: no plan step is executed on a tick in which a plan-interrupt condition
\* holds: whenever the teacher path runs with a hazard within 2 cells (or a listed
\* replan_if condition true) the decision source of that tick is not
\* 'teacher_plan', also when a fresh pending plan is in the slot.
C39_NoPlanStepUnderInterrupt ==
    (ar_calls > 0 /\ ar_out.source \in TeacherSources /\ InterruptConditionHolds)
        => ar_out.source # "teacher_plan"

====
